---- MODULE Spec2Model ----
(***************************************************************************)
(* Voting-power engine of snapshot-parser-tokens-cli (accounts/vsr.rs),    *)
(* its caller ProcessorVeMnde (processors/vemnde.rs) and the SQLite        *)
(* executor the processors write through (db_connection.rs, temp_file.rs). *)
(*                                                                         *)
(* TLC evaluates integers in 32 bits, so the machine integers of the code  *)
(* are modelled at a reduced width: a u64 is an unsigned WordBits-bit      *)
(* word, an i64 a signed WordBits-bit word and a u128 an unsigned          *)
(* 2*WordBits-bit word.  Every checked_*, saturating_*, wrapping and       *)
(* narrowing step of the code is kept and acts at these widths.  The time  *)
(* constants and the fixed-point base are the code's values divided by a   *)
(* fixed unit so that several periods fit in a word.                       *)
(***************************************************************************)
EXTENDS Integers, Sequences, FiniteSets, TLC

\* ------------------------------------------------------------------------
\* Machine integers
\* ------------------------------------------------------------------------

\* Width of the modelled u64 / i64 word, in bits.
WordBits == 12

RECURSIVE Pow2(_)
Pow2(n) == IF n = 0 THEN 1 ELSE 2 * Pow2(n - 1)

U64_MAX == Pow2(WordBits) - 1
I64_MAX == Pow2(WordBits - 1) - 1
I64_MIN == 0 - Pow2(WordBits - 1)
U128_BITS == 2 * WordBits
U128_MAX == Pow2(U128_BITS) - 1
\* digit_shift is an i8: its range -2^7..2^7-1 is -U128_BITS..U128_BITS-1 for
\* the 128-bit intermediate, and the modelled i8 keeps that relation.
I8_MIN == 0 - U128_BITS
I8_MAX == U128_BITS - 1

U64 == 0..U64_MAX
I64 == I64_MIN..I64_MAX

\* Option<u64> / Option<u128>: NONE stands for Option::None.
NONE == 0 - 1

Min(a, b) == IF a <= b THEN a ELSE b

\* i64 two's-complement wrap of a mathematical integer (release build).
WrapI64(x) == ((x - I64_MIN) % Pow2(WordBits)) + I64_MIN

\* `x as u64` for an i64 x.
I64AsU64(x) == IF x < 0 THEN x + Pow2(WordBits) ELSE x

\* i8 two's-complement wrap, and `x as u32` for an i8 x (sign extension; the
\* u32 is kept at 30 bits, every exponent >= U128_BITS acting alike).
WrapI8(x) == ((x - I8_MIN) % (2 * U128_BITS)) + I8_MIN
I8AsU32(x) == IF x < 0 THEN x + Pow2(30) ELSE x

\* u64::checked_add / checked_sub / checked_mul / checked_div / saturating_sub
U64CheckedAdd(a, b) == IF a + b > U64_MAX THEN NONE ELSE a + b
U64CheckedSub(a, b) == IF a < b THEN NONE ELSE a - b
U64CheckedMul(a, b) == IF a * b > U64_MAX THEN NONE ELSE a * b
U64CheckedDiv(a, b) == IF b = 0 THEN NONE ELSE a \div b
U64SaturatingSub(a, b) == IF a < b THEN 0 ELSE a - b

\* u128::checked_mul / checked_div.  The product is compared by division so
\* that no intermediate exceeds the u128 range.
U128CheckedMul(a, b) ==
    IF a = 0 \/ b = 0 THEN 0
    ELSE IF a > U128_MAX \div b THEN NONE
    ELSE a * b
U128CheckedDiv(a, b) == IF b = 0 THEN NONE ELSE a \div b

\* u64::try_from(u128)
U64TryFrom(x) == IF x > U64_MAX THEN NONE ELSE x

\* ------------------------------------------------------------------------
\* Results: anyhow::Result<u64>, or a panic unwinding out of the function
\* ------------------------------------------------------------------------

Ok(v) == [tag |-> "Ok", val |-> v, err |-> "-"]
Err(e) == [tag |-> "Err", val |-> 0, err |-> e]
Panic(m) == [tag |-> "Panic", val |-> 0, err |-> m]

IsOk(r) == r.tag = "Ok"
IsErr(r) == r.tag = "Err"
IsPanic(r) == r.tag = "Panic"

\* The messages of the errors the engine returns.
VoterWeightOverflow == "VoterWeightOverflow"
LockupPeriodMismatch == "assert_eq but lockup_secs % period_secs != 0"
VotingPowerInvariantViolation == "assert_gte but max_locked_vote_weight is less than locked_vote_weight"
TryFromIntError == "out of range integral type conversion attempted"

\* ------------------------------------------------------------------------
\* State
\* ------------------------------------------------------------------------

VARIABLES
    overflow_checks,   \* build profile: TRUE when integer overflow panics
    vsr_registrar,     \* ProcessorVeMnde.vsr_registrar.voting_mints
    current_ts,        \* ProcessorVeMnde.current_ts
    deposit,           \* the DepositEntry handed to voting_power
    power,             \* the locals and the result of that voting_power call
    ret,               \* the function last called on its own, and what it returned
    pc,                \* where ProcessorVeMnde::process stands
    scanned,           \* accounts of the scan already visited by the loop
    voter,             \* the Voter account in hand
    total,             \* insert_vemnde's `voting_power`: the result of the try_fold
    db_sender,         \* the DbMessages sent and not yet received by the executor
    response,          \* the oneshot response of the message in flight
    vemnde_counter,    \* ProgressCounter of the vemnde_accounts table
    error_log,         \* number of error!/warn! lines written by process
    tx_bulk,           \* SQLiteExecutor.tx_bulk: NONE or Some(n)
    transaction_batch_counter,  \* SQLiteExecutor.transaction_batch_counter
    shut_down,         \* SQLiteExecutor.shut_down
    db_temp_guard,     \* TempFileGuard.path: "Some" or "None"
    db,                \* the SQLite connection: open transaction and inserted rows
    files,             \* the temporary DB file and the output path on disk
    receiver,          \* the DbMessages in the mpsc channel
    senders,           \* TRUE while a Sender of the channel is alive
    executor_pc,       \* where SQLiteExecutor::start stands
    issued,            \* the statements the last handler sent to SQLite
    taken,             \* the messages taken from the channel, in order
    seen,              \* the kinds of message taken so far, and whether a statement failed
    answered,          \* the messages answered on their oneshot channel, in order
    last_result        \* what the last handler returned (a panic is not answered)

\* ------------------------------------------------------------------------
\* LockupKind
\* ------------------------------------------------------------------------

LockupKind == {"None", "Daily", "Monthly", "Cliff", "Constant"}

\* One model time unit is 21,600 s and one factor unit is 100,000,000.
SCALED_FACTOR_BASE == 1000000000 \div 100000000
SECS_PER_DAY == 86400 \div 21600
SECS_PER_MONTH == (365 * SECS_PER_DAY) \div 12

period_secs(kind) ==
    CASE kind = "None" -> 0
      [] kind = "Daily" -> SECS_PER_DAY
      [] kind = "Monthly" -> SECS_PER_MONTH
      [] kind = "Cliff" -> SECS_PER_DAY
      [] kind = "Constant" -> SECS_PER_DAY

\* ------------------------------------------------------------------------
\* Lockup
\* ------------------------------------------------------------------------

\* seconds_left counting the distance to end_ts on both sides of it: the
\* variant C18 is told apart from.
seconds_left_absolute(lockup, curr_ts_in) ==
    LET curr_ts == IF lockup.kind = "Constant" THEN lockup.start_ts ELSE curr_ts_in
        diff == IF curr_ts >= lockup.end_ts THEN curr_ts - lockup.end_ts
                ELSE lockup.end_ts - curr_ts
    IN  IF diff > I64_MAX /\ overflow_checks
        THEN Panic("attempt to subtract with overflow")
        ELSE Ok(I64AsU64(WrapI64(diff)))

\* seconds_left without lines 355-357, counting down for every kind: the
\* variant C19 is told apart from.
seconds_left_counting_down(lockup, curr_ts_in) ==
    LET diff == lockup.end_ts - curr_ts_in
    IN  IF curr_ts_in >= lockup.end_ts THEN Ok(0)
        ELSE IF diff > I64_MAX /\ overflow_checks
             THEN Panic("attempt to subtract with overflow")
        ELSE Ok(I64AsU64(WrapI64(diff)))

\* end_ts - curr_ts in i64, then `as u64`.  With overflow checks the
\* subtraction panics when the difference leaves the i64 range; without
\* them it wraps.
seconds_left(lockup, curr_ts_in) ==
    LET curr_ts == IF lockup.kind = "Constant" THEN lockup.start_ts ELSE curr_ts_in
        diff == lockup.end_ts - curr_ts
    IN  IF curr_ts >= lockup.end_ts THEN Ok(0)
        ELSE IF diff > I64_MAX /\ overflow_checks
             THEN Panic("attempt to subtract with overflow")
        ELSE Ok(I64AsU64(WrapI64(diff)))

expired(lockup, curr_ts) ==
    LET sl == seconds_left(lockup, curr_ts)
    IN  IF IsOk(sl) THEN Ok(IF sl.val = 0 THEN 1 ELSE 0) ELSE sl

\* periods_total without the test of line 372: the variant C15 is told apart from.
periods_total_unchecked(lockup) ==
    LET period == period_secs(lockup.kind)
        lockup_secs == seconds_left(lockup, lockup.start_ts)
    IN  IF period = 0 THEN Ok(0)
        ELSE IF ~IsOk(lockup_secs) THEN lockup_secs
        ELSE Ok(lockup_secs.val \div period)

periods_total(lockup) ==
    LET period == period_secs(lockup.kind)
        lockup_secs == seconds_left(lockup, lockup.start_ts)
    IN  IF period = 0 THEN Ok(0)
        ELSE IF ~IsOk(lockup_secs) THEN lockup_secs
        ELSE IF lockup_secs.val % period # 0 THEN Err(LockupPeriodMismatch)
        ELSE Ok(lockup_secs.val \div period)

periods_left(lockup, curr_ts) ==
    LET period == period_secs(lockup.kind)
        sl == seconds_left(lockup, curr_ts)
    IN  IF period = 0 THEN Ok(0)
        ELSE IF curr_ts < lockup.start_ts THEN periods_total(lockup)
        ELSE IF ~IsOk(sl) THEN sl
        ELSE LET sum == U64CheckedAdd(sl.val, U64SaturatingSub(period, 1))
             IN  IF sum = NONE THEN Panic("unwrap on None: checked_add")
                 ELSE Ok(sum \div period)

\* ------------------------------------------------------------------------
\* VotingMintConfig
\* ------------------------------------------------------------------------

\* 10^e when it fits a u128, NONE otherwise.
RECURSIVE Pow10Checked(_)
Pow10Checked(e) ==
    IF e >= U128_BITS THEN NONE
    ELSE IF e = 0 THEN 1
    ELSE LET p == Pow10Checked(e - 1)
         IN  IF p = NONE \/ p > U128_MAX \div 10 THEN NONE ELSE 10 * p

\* 10^e modulo 2^U128_BITS (which divides 10^e once e >= U128_BITS).
RECURSIVE Pow10Wrapped(_)
Pow10Wrapped(e) ==
    IF e >= U128_BITS THEN 0
    ELSE IF e = 0 THEN 1
    ELSE (10 * Pow10Wrapped(e - 1)) % Pow2(U128_BITS)

\* 10u128.pow(e): panics on overflow with overflow checks, wraps without.
Pow10U128(e) ==
    IF Pow10Checked(e) # NONE THEN Ok(Pow10Checked(e))
    ELSE IF overflow_checks THEN Panic("attempt to multiply with overflow")
    ELSE Ok(Pow10Wrapped(e))

digit_shift_native(config, amount_native) ==
    IF config.digit_shift < 0
    THEN IF config.digit_shift = I8_MIN /\ overflow_checks
         THEN Panic("attempt to negate with overflow")
         ELSE LET pow == Pow10U128(I8AsU32(WrapI8(0 - config.digit_shift)))
              IN  IF ~IsOk(pow) THEN pow
                  ELSE LET val == U128CheckedDiv(amount_native, pow.val)
                       IN  IF val = NONE \/ U64TryFrom(val) = NONE
                           THEN Err(VoterWeightOverflow)
                           ELSE Ok(val)
    ELSE LET pow == Pow10U128(I8AsU32(config.digit_shift))
         IN  IF ~IsOk(pow) THEN pow
             ELSE LET val == U128CheckedMul(amount_native, pow.val)
                  IN  IF val = NONE \/ U64TryFrom(val) = NONE
                      THEN Err(VoterWeightOverflow)
                      ELSE Ok(val)

\* apply_factor forming the product in u64: the variant C13 is told apart from.
apply_factor_narrow(base, factor) ==
    LET prod == U64CheckedMul(base, factor)
        quot == IF prod = NONE THEN NONE ELSE U128CheckedDiv(prod, SCALED_FACTOR_BASE)
    IN  IF quot = NONE \/ U64TryFrom(quot) = NONE
        THEN Err(VoterWeightOverflow)
        ELSE Ok(quot)

apply_factor(base, factor) ==
    LET prod == U128CheckedMul(base, factor)
        quot == IF prod = NONE THEN NONE ELSE U128CheckedDiv(prod, SCALED_FACTOR_BASE)
    IN  IF quot = NONE \/ U64TryFrom(quot) = NONE
        THEN Err(VoterWeightOverflow)
        ELSE Ok(quot)

baseline_vote_weight(config, amount_native) ==
    LET shifted == digit_shift_native(config, amount_native)
    IN  IF ~IsOk(shifted) THEN shifted
        ELSE apply_factor(shifted.val, config.baseline_vote_weight_scaled_factor)

max_extra_lockup_vote_weight(config, amount_native) ==
    LET shifted == digit_shift_native(config, amount_native)
    IN  IF ~IsOk(shifted) THEN shifted
        ELSE apply_factor(shifted.val, config.max_extra_lockup_vote_weight_scaled_factor)

\* ------------------------------------------------------------------------
\* DepositEntry
\* ------------------------------------------------------------------------

\* Lines 216-253: the closed form, entered with secs_to_closest_cliff below
\* lockup_saturation_secs.  Every unwrap is a panic on None.
LinearVestingClosedForm(periods_left_v, periods_total_v, period, secs_to_closest_cliff, max_locked_vote_weight, lockup_saturation_secs) ==
    LET denominator == U64CheckedMul(periods_total_v, lockup_saturation_secs)
        sat_sum == U64CheckedAdd(
                       U64SaturatingSub(lockup_saturation_secs, secs_to_closest_cliff),
                       period)
        lockup_saturation_periods ==
            IF sat_sum = NONE THEN NONE ELSE U64CheckedDiv(sat_sum, period)
        q == Min(lockup_saturation_periods, periods_left_v)
        r == U64SaturatingSub(periods_left_v, q)
        q_prod == U64CheckedMul(q, U64SaturatingSub(q, 1))
        sum_full_periods == q_prod \div 2
        lockup_secs_fractional == U64CheckedMul(q, secs_to_closest_cliff)
        lockup_secs_full == U64CheckedMul(sum_full_periods, period)
        lockup_secs_saturated == U64CheckedMul(r, lockup_saturation_secs)
        lockup_secs == lockup_secs_fractional + lockup_secs_full + lockup_secs_saturated
        product == U128CheckedMul(max_locked_vote_weight, lockup_secs)
        quotient == U128CheckedDiv(product, denominator)
    IN  IF denominator = NONE THEN Panic("unwrap on None: denominator")
        ELSE IF sat_sum = NONE THEN Panic("unwrap on None: checked_add")
        ELSE IF lockup_saturation_periods = NONE THEN Panic("unwrap on None: checked_div")
        ELSE IF q_prod = NONE THEN Panic("unwrap on None: sum_full_periods")
        ELSE IF lockup_secs_fractional = NONE THEN Panic("unwrap on None: lockup_secs_fractional")
        ELSE IF lockup_secs_full = NONE THEN Panic("unwrap on None: lockup_secs_full")
        ELSE IF lockup_secs_saturated = NONE THEN Panic("unwrap on None: lockup_secs_saturated")
        ELSE IF product = NONE THEN Panic("unwrap on None: checked_mul")
        ELSE IF quotient = NONE THEN Panic("unwrap on None: checked_div")
        ELSE IF U64TryFrom(quotient) = NONE THEN Err(TryFromIntError)
        ELSE Ok(quotient)

\* voting_power_linear_vesting with the saturation test of line 212 made
\* strict (> for >=): the variant C6 is told apart from.
voting_power_linear_vesting_strict(dep, curr_ts, max_locked_vote_weight, lockup_saturation_secs) ==
    LET pl == periods_left(dep.lockup, curr_ts)
        pt == periods_total(dep.lockup)
        period == period_secs(dep.lockup.kind)
        sl == seconds_left(dep.lockup, curr_ts)
        elapsed == U64CheckedMul(period, U64SaturatingSub(pl.val, 1))
        secs_to_closest_cliff == U64CheckedSub(sl.val, elapsed)
    IN  IF ~IsOk(pl) THEN pl
        ELSE IF ~IsOk(pt) THEN pt
        ELSE IF pl.val = 0 THEN Ok(0)
        ELSE IF ~IsOk(sl) THEN sl
        ELSE IF elapsed = NONE THEN Panic("unwrap on None: checked_mul")
        ELSE IF secs_to_closest_cliff = NONE THEN Panic("unwrap on None: checked_sub")
        ELSE IF secs_to_closest_cliff > lockup_saturation_secs
             THEN Ok(max_locked_vote_weight)
        ELSE LinearVestingClosedForm(pl.val, pt.val, period, secs_to_closest_cliff,
                                     max_locked_vote_weight, lockup_saturation_secs)

voting_power_linear_vesting(dep, curr_ts, max_locked_vote_weight, lockup_saturation_secs) ==
    LET pl == periods_left(dep.lockup, curr_ts)
        pt == periods_total(dep.lockup)
        period == period_secs(dep.lockup.kind)
        sl == seconds_left(dep.lockup, curr_ts)
        elapsed == U64CheckedMul(period, U64SaturatingSub(pl.val, 1))
        secs_to_closest_cliff == U64CheckedSub(sl.val, elapsed)
    IN  IF ~IsOk(pl) THEN pl
        ELSE IF ~IsOk(pt) THEN pt
        ELSE IF pl.val = 0 THEN Ok(0)
        ELSE IF ~IsOk(sl) THEN sl
        ELSE IF elapsed = NONE THEN Panic("unwrap on None: checked_mul")
        ELSE IF secs_to_closest_cliff = NONE THEN Panic("unwrap on None: checked_sub")
        ELSE IF secs_to_closest_cliff >= lockup_saturation_secs
             THEN Ok(max_locked_vote_weight)
        ELSE LinearVestingClosedForm(pl.val, pt.val, period, secs_to_closest_cliff,
                                     max_locked_vote_weight, lockup_saturation_secs)

\* voting_power_cliff dividing before it multiplies: the variant C4 is told
\* apart from.
voting_power_cliff_divide_first(dep, curr_ts, max_locked_vote_weight, lockup_saturation_secs) ==
    LET sl == seconds_left(dep.lockup, curr_ts)
        remaining == Min(sl.val, lockup_saturation_secs)
        quotient == U128CheckedDiv(max_locked_vote_weight, lockup_saturation_secs)
        product == U128CheckedMul(quotient, remaining)
    IN  IF ~IsOk(sl) THEN sl
        ELSE IF quotient = NONE THEN Panic("unwrap on None: checked_div")
        ELSE IF product = NONE THEN Panic("unwrap on None: checked_mul")
        ELSE IF U64TryFrom(product) = NONE THEN Err(TryFromIntError)
        ELSE Ok(product)

\* voting_power_cliff without the min against lockup_saturation_secs: the
\* variant C5 is told apart from.
voting_power_cliff_unclamped(dep, curr_ts, max_locked_vote_weight, lockup_saturation_secs) ==
    LET sl == seconds_left(dep.lockup, curr_ts)
        remaining == sl.val
        product == U128CheckedMul(max_locked_vote_weight, remaining)
        quotient == U128CheckedDiv(product, lockup_saturation_secs)
    IN  IF ~IsOk(sl) THEN sl
        ELSE IF product = NONE THEN Panic("unwrap on None: checked_mul")
        ELSE IF quotient = NONE THEN Panic("unwrap on None: checked_div")
        ELSE IF U64TryFrom(quotient) = NONE THEN Err(TryFromIntError)
        ELSE Ok(quotient)

voting_power_cliff(dep, curr_ts, max_locked_vote_weight, lockup_saturation_secs) ==
    LET sl == seconds_left(dep.lockup, curr_ts)
        remaining == Min(sl.val, lockup_saturation_secs)
        product == U128CheckedMul(max_locked_vote_weight, remaining)
        quotient == U128CheckedDiv(product, lockup_saturation_secs)
    IN  IF ~IsOk(sl) THEN sl
        ELSE IF product = NONE THEN Panic("unwrap on None: checked_mul")
        ELSE IF quotient = NONE THEN Panic("unwrap on None: checked_div")
        ELSE IF U64TryFrom(quotient) = NONE THEN Err(TryFromIntError)
        ELSE Ok(quotient)

voting_power_locked(dep, curr_ts, max_locked_vote_weight, lockup_saturation_secs) ==
    LET ex == expired(dep.lockup, curr_ts)
        kind == dep.lockup.kind
    IN  IF ~IsOk(ex) THEN ex
        ELSE IF ex.val = 1 \/ max_locked_vote_weight = 0 THEN Ok(0)
        ELSE CASE kind = "None" -> Ok(0)
               [] kind = "Daily" ->
                    voting_power_linear_vesting(dep, curr_ts, max_locked_vote_weight,
                                                lockup_saturation_secs)
               [] kind = "Monthly" ->
                    voting_power_linear_vesting(dep, curr_ts, max_locked_vote_weight,
                                                lockup_saturation_secs)
               [] kind = "Cliff" ->
                    voting_power_cliff(dep, curr_ts, max_locked_vote_weight,
                                       lockup_saturation_secs)
               [] kind = "Constant" ->
                    voting_power_cliff(dep, curr_ts, max_locked_vote_weight,
                                       lockup_saturation_secs)

\* A local that the call never reached.
NotEvaluated == [tag |-> "NotEvaluated", val |-> 0, err |-> "-"]

\* Lines 315-324: the invariant check and the checked addition.
voting_power_result(baseline_vote_weight_v, max_locked_vote_weight, locked_vote_weight) ==
    IF max_locked_vote_weight < locked_vote_weight
    THEN Err(VotingPowerInvariantViolation)
    ELSE IF U64CheckedAdd(baseline_vote_weight_v, locked_vote_weight) = NONE
    THEN Err(VoterWeightOverflow)
    ELSE Ok(U64CheckedAdd(baseline_vote_weight_v, locked_vote_weight))

\* voting_power taking the basis of the locked term from
\* amount_deposited_native: the variant C2 is told apart from.
voting_power_frame_locked_from_deposited(dep, config, curr_ts) ==
    LET baseline == baseline_vote_weight(config, dep.amount_deposited_native)
        max_locked == max_extra_lockup_vote_weight(config, dep.amount_deposited_native)
        locked == voting_power_locked(dep, curr_ts, max_locked.val,
                                      config.lockup_saturation_secs)
    IN  IF ~IsOk(baseline)
        THEN [baseline_vote_weight |-> baseline, max_locked_vote_weight |-> NotEvaluated,
              locked_vote_weight |-> NotEvaluated, result |-> baseline]
        ELSE IF ~IsOk(max_locked)
        THEN [baseline_vote_weight |-> baseline, max_locked_vote_weight |-> max_locked,
              locked_vote_weight |-> NotEvaluated, result |-> max_locked]
        ELSE [baseline_vote_weight |-> baseline, max_locked_vote_weight |-> max_locked,
              locked_vote_weight |-> locked,
              result |-> IF ~IsOk(locked) THEN locked
                         ELSE voting_power_result(baseline.val, max_locked.val, locked.val)]

\* DepositEntry::voting_power with its locals: each local is NotEvaluated when
\* an earlier `?` or panic left the function before it was bound.
voting_power_frame(dep, config, curr_ts) ==
    LET baseline == baseline_vote_weight(config, dep.amount_deposited_native)
        max_locked == max_extra_lockup_vote_weight(config, dep.amount_initially_locked_native)
        locked == voting_power_locked(dep, curr_ts, max_locked.val,
                                      config.lockup_saturation_secs)
    IN  IF ~IsOk(baseline)
        THEN [baseline_vote_weight |-> baseline, max_locked_vote_weight |-> NotEvaluated,
              locked_vote_weight |-> NotEvaluated, result |-> baseline]
        ELSE IF ~IsOk(max_locked)
        THEN [baseline_vote_weight |-> baseline, max_locked_vote_weight |-> max_locked,
              locked_vote_weight |-> NotEvaluated, result |-> max_locked]
        ELSE [baseline_vote_weight |-> baseline, max_locked_vote_weight |-> max_locked,
              locked_vote_weight |-> locked,
              result |-> IF ~IsOk(locked) THEN locked
                         ELSE voting_power_result(baseline.val, max_locked.val, locked.val)]

voting_power(dep, config, curr_ts) == voting_power_frame(dep, config, curr_ts).result

\* ------------------------------------------------------------------------
\* Inputs
\* ------------------------------------------------------------------------

NoDeposit == [lockup |-> [start_ts |-> 0, end_ts |-> 0, kind |-> "None"],
              amount_deposited_native |-> 0, amount_initially_locked_native |-> 0,
              is_used |-> FALSE, voting_mint_config_idx |-> 0]

NoFrame == [baseline_vote_weight |-> NotEvaluated, max_locked_vote_weight |-> NotEvaluated,
            locked_vote_weight |-> NotEvaluated, result |-> NotEvaluated]

\* A zeroed VotingMintConfig slot.
ZeroConfig == [baseline_vote_weight_scaled_factor |-> 0,
               max_extra_lockup_vote_weight_scaled_factor |-> 0,
               lockup_saturation_secs |-> 0, digit_shift |-> 0]

\* Lockups whose start, end and the query time stay far from the i64 limits,
\* and lockups that reach them.
StartSamples == {0, 2}
EndSamples == {0 - 1, SECS_PER_DAY, 2 * SECS_PER_DAY, 2 + 2 * SECS_PER_DAY, 3 * SECS_PER_DAY,
               SECS_PER_MONTH, 2 * SECS_PER_MONTH, I64_MAX - (I64_MAX % SECS_PER_DAY), I64_MAX}
ExtremeEndSamples == {0 - 1, I64_MAX - (I64_MAX % SECS_PER_DAY), I64_MAX - (U64_MAX % SECS_PER_MONTH), I64_MAX}
TimeSamples == {I64_MIN, 0 - 3, 0, 1, 3, 4, 5, 6, 8, 9, 3 * SECS_PER_DAY,
                SECS_PER_MONTH, SECS_PER_MONTH + 1, 2 * SECS_PER_MONTH, I64_MAX}
SaturationSamples == {0, 3, 6, SECS_PER_MONTH + 9, 2 * SECS_PER_MONTH + 58, U64_MAX}
\* <<amount_deposited_native, amount_initially_locked_native>>
AmountSamples == {<<5, 7>>, <<0, 1000>>, <<U64_MAX, U64_MAX>>}
\* <<baseline factor, max extra factor, digit_shift>>
FactorSamples == {<<SCALED_FACTOR_BASE, SCALED_FACTOR_BASE, 0>>,
                  <<SCALED_FACTOR_BASE \div 2, 2 * SCALED_FACTOR_BASE + 5, 0 - 1>>,
                  <<SCALED_FACTOR_BASE \div 2, SCALED_FACTOR_BASE, 1>>}

LockupSamples ==
    {[start_ts |-> s, end_ts |-> e, kind |-> k] :
        s \in StartSamples, e \in EndSamples, k \in LockupKind}
    \cup {[start_ts |-> I64_MIN, end_ts |-> e, kind |-> k] :
        e \in ExtremeEndSamples, k \in LockupKind}

DepositSamples ==
    {[lockup |-> l, amount_deposited_native |-> a[1],
      amount_initially_locked_native |-> a[2],
      is_used |-> TRUE, voting_mint_config_idx |-> 0] :
        l \in LockupSamples, a \in AmountSamples}

ConfigSamples ==
    {[baseline_vote_weight_scaled_factor |-> f[1],
      max_extra_lockup_vote_weight_scaled_factor |-> f[2],
      lockup_saturation_secs |-> sat, digit_shift |-> f[3]] :
        f \in FactorSamples, sat \in SaturationSamples}

\* The cliff scenario of the specification: saturation 1000, lockup 0..1000,
\* factor 1.0, amounts in units of 1,000 native tokens.
ScenarioAmount == 1000000 \div 1000
ScenarioTimes == {0, 500, 1000, 1500}
ScenarioConfig == [baseline_vote_weight_scaled_factor |-> 0,
                   max_extra_lockup_vote_weight_scaled_factor |-> SCALED_FACTOR_BASE,
                   lockup_saturation_secs |-> 1000, digit_shift |-> 0]
ScenarioDeposit == [lockup |-> [start_ts |-> 0, end_ts |-> 1000, kind |-> "Cliff"],
                    amount_deposited_native |-> ScenarioAmount,
                    amount_initially_locked_native |-> ScenarioAmount,
                    is_used |-> TRUE, voting_mint_config_idx |-> 0]

Registrar(c) == [i \in 0..3 |-> IF i = 0 THEN c ELSE ZeroConfig]

engine_vars == <<overflow_checks, vsr_registrar, current_ts>>
call_vars == <<deposit, power, ret>>
process_vars == <<pc, scanned, voter, total, db_sender, response, vemnde_counter, error_log>>
executor_vars == <<tx_bulk, transaction_batch_counter, shut_down, db_temp_guard, db, files, receiver, senders, executor_pc, issued, taken, seen, answered, last_result>>
vars == <<engine_vars, call_vars, process_vars, executor_vars>>

NoCall == [fn |-> "-", result |-> NotEvaluated]
NoVoter == [deposits |-> <<>>]
NoResponse == NotEvaluated

\* SQLiteExecutor::new: no transaction begun, the temporary file created by
\* Connection::open and held by the guard, nothing at the output path.
EmptyDb == [in_transaction |-> FALSE, committed |-> 0, uncommitted |-> 0]
TempFileOnly == [temp |-> TRUE, output |-> FALSE, promotions |-> 0]

\* The executor as the specifications of the voting-power engine hold it:
\* constructed without tx_bulk and not started.
ExecutorIdle ==
    /\ tx_bulk = NONE /\ transaction_batch_counter = 0 /\ shut_down = FALSE
    /\ db_temp_guard = "Some" /\ db = EmptyDb /\ files = TempFileOnly
    /\ receiver = <<>> /\ senders = TRUE /\ executor_pc = "idle"
    /\ issued = <<>> /\ taken = <<>> /\ seen = {} /\ answered = <<>> /\ last_result = NotEvaluated

ProcessIdle ==
    /\ pc = "idle" /\ scanned = 0 /\ voter = NoVoter /\ total = NotEvaluated
    /\ db_sender = <<>> /\ response = NoResponse /\ vemnde_counter = 0 /\ error_log = 0

\* ------------------------------------------------------------------------
\* The voting power of one deposit entry
\* ------------------------------------------------------------------------

InitVotingPower ==
    /\ overflow_checks \in BOOLEAN
    /\ \/ /\ vsr_registrar \in {Registrar(c) : c \in ConfigSamples}
          /\ current_ts \in TimeSamples
       \/ /\ vsr_registrar = Registrar(ScenarioConfig)
          /\ current_ts \in ScenarioTimes
    /\ deposit = NoDeposit
    /\ power = NoFrame
    /\ ret = NoCall
    /\ ProcessIdle
    /\ ExecutorIdle

\* Voter::deserialize hands the processor a deposit entry.
Deserialize(d) ==
    /\ deposit = NoDeposit
    /\ deposit' = d
    /\ UNCHANGED <<executor_vars, engine_vars, power, ret, process_vars>>

VotingPower ==
    /\ deposit # NoDeposit
    /\ power = NoFrame
    /\ power' = voting_power_frame(deposit, vsr_registrar[deposit.voting_mint_config_idx],
                                   current_ts)
    /\ UNCHANGED <<executor_vars, engine_vars, deposit, ret, process_vars>>

NextVotingPower ==
    \/ \E d \in DepositSamples \cup {ScenarioDeposit} : Deserialize(d)
    \/ VotingPower

SpecVotingPower == InitVotingPower /\ [][NextVotingPower]_vars

\* ------------------------------------------------------------------------
\* The functions of VotingMintConfig and Lockup, each called on its own
\* ------------------------------------------------------------------------

\* digit_shift over the i8 range: its ends, and the exponents around the
\* largest powers of ten a u64 and a u128 hold.
ShiftSamples == {I8_MIN, I8_MIN + 1, 0 - 8, 0 - 7, 0 - 4, 0 - 3, 0 - 1,
                 0, 1, 3, 4, 5, 7, 8, I8_MAX}
\* <<baseline_vote_weight_scaled_factor, max_extra_lockup_vote_weight_scaled_factor>>
FactorPairSamples == {<<0, SCALED_FACTOR_BASE>>,
                      <<SCALED_FACTOR_BASE, SCALED_FACTOR_BASE \div 2>>,
                      <<SCALED_FACTOR_BASE + 1, U64_MAX>>,
                      <<U64_MAX, 1>>}
MintConfigSamples ==
    {[baseline_vote_weight_scaled_factor |-> f[1],
      max_extra_lockup_vote_weight_scaled_factor |-> f[2],
      lockup_saturation_secs |-> 6, digit_shift |-> sh] :
        f \in FactorPairSamples, sh \in ShiftSamples}
NativeAmountSamples == {0, 1, 9, 10, 409, 410, Pow2(WordBits - 1), U64_MAX}

\* A lockup of 100 s, shorter than every period.
ShortLockupSamples ==
    {[start_ts |-> 0, end_ts |-> 100, kind |-> k] : k \in LockupKind}

LockupCallSamples ==
    {[lockup |-> l, amount_deposited_native |-> 5, amount_initially_locked_native |-> 7,
      is_used |-> TRUE, voting_mint_config_idx |-> 0] :
        l \in LockupSamples \cup ShortLockupSamples}
    \cup {[lockup |-> [start_ts |-> 0, end_ts |-> 0, kind |-> "None"],
           amount_deposited_native |-> a, amount_initially_locked_native |-> a,
           is_used |-> TRUE, voting_mint_config_idx |-> 0] : a \in NativeAmountSamples}

InitCalls ==
    /\ overflow_checks \in BOOLEAN
    /\ \/ /\ vsr_registrar \in {Registrar(c) : c \in MintConfigSamples}
          /\ current_ts = 0
       \/ /\ vsr_registrar = Registrar(ZeroConfig)
          /\ current_ts \in TimeSamples
    /\ deposit = NoDeposit
    /\ power = NoFrame
    /\ ret = NoCall
    /\ ProcessIdle
    /\ ExecutorIdle

\* One call of fn on the deposit in hand and its mint config.
Call(fn, result) ==
    /\ deposit # NoDeposit
    /\ ret = NoCall
    /\ ret' = [fn |-> fn, result |-> result]
    /\ UNCHANGED <<executor_vars, engine_vars, deposit, power, process_vars>>

DigitShiftNative ==
    Call("digit_shift_native",
         digit_shift_native(vsr_registrar[deposit.voting_mint_config_idx],
                            deposit.amount_deposited_native))

ApplyFactor ==
    Call("apply_factor",
         apply_factor(deposit.amount_deposited_native,
                      vsr_registrar[deposit.voting_mint_config_idx]
                          .baseline_vote_weight_scaled_factor))

BaselineVoteWeight ==
    Call("baseline_vote_weight",
         baseline_vote_weight(vsr_registrar[deposit.voting_mint_config_idx],
                              deposit.amount_deposited_native))

MaxExtraLockupVoteWeight ==
    Call("max_extra_lockup_vote_weight",
         max_extra_lockup_vote_weight(vsr_registrar[deposit.voting_mint_config_idx],
                                      deposit.amount_initially_locked_native))

SecondsLeft == Call("seconds_left", seconds_left(deposit.lockup, current_ts))

Expired == Call("expired", expired(deposit.lockup, current_ts))

PeriodsTotalCall == Call("periods_total", periods_total(deposit.lockup))

PeriodsLeft == Call("periods_left", periods_left(deposit.lockup, current_ts))

NextCalls ==
    \/ \E d \in LockupCallSamples : Deserialize(d)
    \/ DigitShiftNative
    \/ ApplyFactor
    \/ BaselineVoteWeight
    \/ MaxExtraLockupVoteWeight
    \/ SecondsLeft
    \/ Expired
    \/ PeriodsTotalCall
    \/ PeriodsLeft

SpecCalls == InitCalls /\ [][NextCalls]_vars

\* ------------------------------------------------------------------------
\* ProcessorVeMnde::process and insert_vemnde
\* ------------------------------------------------------------------------

\* Number of DepositEntry slots of a Voter (32 in the code) and number of
\* Voter accounts the scan returns.
DepositSlots == 3
MaxVoters == 2

\* The fold without the filter on is_used: the variant C1 is told apart from.
RECURSIVE try_fold_unfiltered(_, _, _, _, _)
try_fold_unfiltered(registrar, deposits, curr_ts, i, sum) ==
    IF i > Len(deposits) THEN Ok(sum)
    ELSE IF deposits[i].voting_mint_config_idx \notin DOMAIN registrar
         THEN Panic("index out of bounds")
    ELSE LET vp == voting_power(deposits[i],
                                registrar[deposits[i].voting_mint_config_idx], curr_ts)
         IN  IF ~IsOk(vp) THEN vp
             ELSE IF U64CheckedAdd(sum, vp.val) = NONE
                  THEN Panic("unwrap on None: checked_add")
             ELSE try_fold_unfiltered(registrar, deposits, curr_ts, i + 1, sum + vp.val)

\* The fold that ends at the first slot with is_used = false (take_while in
\* place of filter): the variant C21 is told apart from.
RECURSIVE try_fold_until_unused(_, _, _, _, _)
try_fold_until_unused(registrar, deposits, curr_ts, i, sum) ==
    IF i > Len(deposits) THEN Ok(sum)
    ELSE IF ~deposits[i].is_used THEN Ok(sum)
    ELSE IF deposits[i].voting_mint_config_idx \notin DOMAIN registrar
         THEN Panic("index out of bounds")
    ELSE LET vp == voting_power(deposits[i],
                                registrar[deposits[i].voting_mint_config_idx], curr_ts)
         IN  IF ~IsOk(vp) THEN vp
             ELSE IF U64CheckedAdd(sum, vp.val) = NONE
                  THEN Panic("unwrap on None: checked_add")
             ELSE try_fold_until_unused(registrar, deposits, curr_ts, i + 1, sum + vp.val)

\* Lines 158-168: the try_fold over the used deposits, from slot i on with the
\* running sum `sum`.  An out-of-range voting_mint_config_idx panics on the
\* index, an overflowing sum panics on the unwrap.
RECURSIVE try_fold(_, _, _, _, _)
try_fold(registrar, deposits, curr_ts, i, sum) ==
    IF i > Len(deposits) THEN Ok(sum)
    ELSE IF ~deposits[i].is_used
         THEN try_fold(registrar, deposits, curr_ts, i + 1, sum)
    ELSE IF deposits[i].voting_mint_config_idx \notin DOMAIN registrar
         THEN Panic("index out of bounds")
    ELSE LET vp == voting_power(deposits[i],
                                registrar[deposits[i].voting_mint_config_idx], curr_ts)
         IN  IF ~IsOk(vp) THEN vp
             ELSE IF U64CheckedAdd(sum, vp.val) = NONE
                  THEN Panic("unwrap on None: checked_add")
             ELSE try_fold(registrar, deposits, curr_ts, i + 1, sum + vp.val)

voter_voting_power(registrar, v, curr_ts) == try_fold(registrar, v.deposits, curr_ts, 1, 0)

\* The registrar of the batch runs: two mints in use, two zeroed slots.
BatchRegistrar ==
    [i \in 0..3 |->
        CASE i = 0 -> [baseline_vote_weight_scaled_factor |-> SCALED_FACTOR_BASE,
                       max_extra_lockup_vote_weight_scaled_factor |-> SCALED_FACTOR_BASE,
                       lockup_saturation_secs |-> 6, digit_shift |-> 0]
          [] i = 1 -> [baseline_vote_weight_scaled_factor |-> SCALED_FACTOR_BASE \div 2,
                       max_extra_lockup_vote_weight_scaled_factor |-> 2 * SCALED_FACTOR_BASE,
                       lockup_saturation_secs |-> 3 * SECS_PER_DAY, digit_shift |-> 1]
          [] OTHER -> ZeroConfig]

Entry(kind, start_ts, end_ts, deposited, locked, used, idx) ==
    [lockup |-> [start_ts |-> start_ts, end_ts |-> end_ts, kind |-> kind],
     amount_deposited_native |-> deposited, amount_initially_locked_native |-> locked,
     is_used |-> used, voting_mint_config_idx |-> idx]

\* Deposit entries of the scanned voters: plain and locked deposits, one at
\* the top of the u64 range, one with a lockup that is no multiple of its
\* period, one pointing outside the registrar, and an unused slot with
\* leftover contents.
BatchDepositSamples ==
    { Entry("None", 0, 0, 5, 0, TRUE, 0),
      Entry("Cliff", 0, 2 * SECS_PER_DAY, 6, 7, TRUE, 1),
      Entry("None", 0, 0, U64_MAX, 0, TRUE, 0),
      Entry("Daily", 0, 2 * SECS_PER_DAY + 2, 5, 7, TRUE, 0),
      Entry("Daily", 0, 2 * SECS_PER_DAY, 5, 7, TRUE, 4),
      Entry("Daily", 0, 2 * SECS_PER_DAY + 2, U64_MAX, U64_MAX, FALSE, 4) }

RECURSIVE SeqsOf(_, _)
SeqsOf(S, n) ==
    IF n = 0 THEN {<<>>}
    ELSE {Append(q, x) : q \in SeqsOf(S, n - 1), x \in S}

VoterSamples == {[deposits |-> ds] : ds \in SeqsOf(BatchDepositSamples, DepositSlots)}

Init ==
    /\ overflow_checks \in BOOLEAN
    /\ vsr_registrar = BatchRegistrar
    /\ current_ts \in {0, SECS_PER_DAY + 1}
    /\ deposit = NoDeposit
    /\ power = NoFrame
    /\ ret = NoCall
    /\ pc = "scan" /\ scanned = 0 /\ voter = NoVoter /\ total = NotEvaluated
    /\ db_sender = <<>> /\ response = NoResponse /\ vemnde_counter = 0 /\ error_log = 0
    /\ ExecutorIdle

\* One turn of the loop of process for an account that deserializes:
\* insert_vemnde up to its first suspension or its early return.  A panic
\* ends the processor task.
InsertVemnde(v) ==
    /\ pc = "scan"
    /\ scanned < MaxVoters
    /\ scanned' = scanned + 1
    /\ voter' = v
    /\ total' = voter_voting_power(vsr_registrar, v, current_ts)
    /\ response' = NoResponse
    /\ IF IsOk(total')
       THEN /\ db_sender' = Append(db_sender, [kind |-> "Execute", voting_power |-> total'.val])
            /\ vemnde_counter' = vemnde_counter + 1
            /\ pc' = "await_response"
            /\ UNCHANGED error_log
       ELSE IF IsErr(total')
       THEN /\ pc' = "failed"
            /\ UNCHANGED <<db_sender, vemnde_counter, error_log>>
       ELSE /\ pc' = "panicked"
            /\ UNCHANGED <<db_sender, vemnde_counter, error_log>>
    /\ UNCHANGED <<executor_vars, engine_vars, call_vars>>

\* insert_vemnde returned the error of the fold: unwrap_or_else logs it and
\* the loop goes on with the next account.
LogFailure ==
    /\ pc = "failed"
    /\ error_log' = error_log + 1
    /\ voter' = NoVoter
    /\ total' = NotEvaluated
    /\ pc' = "scan"
    /\ UNCHANGED <<executor_vars, engine_vars, call_vars, scanned, db_sender, response, vemnde_counter>>

\* An account whose data does not deserialize as a Voter: a warning only.
SkipUndecodable ==
    /\ pc = "scan"
    /\ scanned < MaxVoters
    /\ scanned' = scanned + 1
    /\ error_log' = error_log + 1
    /\ UNCHANGED <<executor_vars, engine_vars, call_vars, pc, voter, total, db_sender, response,
                   vemnde_counter>>

\* SQLiteExecutor::start receives the Execute message and answers it on the
\* oneshot channel with the result of the statement.
ExecutorExecute(result) ==
    /\ db_sender # <<>>
    /\ db_sender' = Tail(db_sender)
    /\ response' = result
    /\ UNCHANGED <<executor_vars, engine_vars, call_vars, pc, scanned, voter, total, vemnde_counter, error_log>>

\* insert_vemnde resumes at response_rx.await and returns the response; an
\* error is logged by unwrap_or_else.
ReceiveResponse ==
    /\ pc = "await_response"
    /\ response # NoResponse
    /\ error_log' = IF IsErr(response) THEN error_log + 1 ELSE error_log
    /\ response' = NoResponse
    /\ voter' = NoVoter
    /\ total' = NotEvaluated
    /\ pc' = "scan"
    /\ UNCHANGED <<executor_vars, engine_vars, call_vars, scanned, db_sender, vemnde_counter>>

\* The scan is exhausted: the for loop ends after the last account and
\* process returns Ok(()).
ProcessDone ==
    /\ pc = "scan"
    /\ scanned = MaxVoters
    /\ pc' = "done"
    /\ UNCHANGED <<executor_vars, engine_vars, call_vars, scanned, voter, total, db_sender, response,
                   vemnde_counter, error_log>>

Next ==
    \/ \E v \in VoterSamples : InsertVemnde(v)
    \/ LogFailure
    \/ SkipUndecodable
    \/ \E result \in {Ok(1), Err("sqlite failure")} : ExecutorExecute(result)
    \/ ReceiveResponse
    \/ ProcessDone

Spec == Init /\ [][Next]_vars

\* ------------------------------------------------------------------------
\* Properties of one voting_power call (checked under SpecVotingPower)
\* ------------------------------------------------------------------------

Config == vsr_registrar[deposit.voting_mint_config_idx]
Computed == power # NoFrame
LinearKinds == {"Daily", "Monthly"}
CliffKinds == {"Cliff", "Constant"}

\* secondsLeft(now), periodsLeft(now) and periodsTotal of the deposit in hand.
SecondsLeftNow == seconds_left(deposit.lockup, current_ts)
PeriodsLeftNow == periods_left(deposit.lockup, current_ts)
PeriodsTotal == periods_total(deposit.lockup)

\* secsToClosestCliff as the specification defines it, on the integers.
SecsToClosestCliff ==
    SecondsLeftNow.val - period_secs(deposit.lockup.kind) * (PeriodsLeftNow.val - 1)

\* periodsLeft(now) > 0 with every quantity of the definition above computed.
CliffsAhead ==
    /\ IsOk(SecondsLeftNow) /\ IsOk(PeriodsLeftNow) /\ IsOk(PeriodsTotal)
    /\ PeriodsLeftNow.val > 0

\* The per-cliff sum: sum over p = lo..hi of min(stc + (p-1)*period, sat),
\* added up by halving the range.
RECURSIVE CliffSumRange(_, _, _, _, _)
CliffSumRange(lo, hi, stc, period, sat) ==
    IF lo > hi THEN 0
    ELSE IF lo = hi THEN Min(stc + (lo - 1) * period, sat)
    ELSE LET mid == (lo + hi) \div 2
         IN  CliffSumRange(lo, mid, stc, period, sat)
               + CliffSumRange(mid + 1, hi, stc, period, sat)

CliffSum(n, stc, period, sat) == CliffSumRange(1, n, stc, period, sat)

\* C2: voting_power returns baseline_vote_weight(amount_deposited_native) plus
\* voting_power_locked(now, max_extra_lockup_vote_weight(amount_initially_locked_native),
\* lockup_saturation_secs); when that sum exceeds u64::MAX it fails with
\* VoterWeightOverflow.
C2_BaselinePlusLocked ==
    LET b == baseline_vote_weight(Config, deposit.amount_deposited_native)
        m == max_extra_lockup_vote_weight(Config, deposit.amount_initially_locked_native)
        l == voting_power_locked(deposit, current_ts, m.val, Config.lockup_saturation_secs)
    IN  (Computed /\ IsOk(b) /\ IsOk(m) /\ IsOk(l)) =>
            power.result = IF b.val + l.val <= U64_MAX
                           THEN Ok(b.val + l.val)
                           ELSE Err(VoterWeightOverflow)

\* C2 witness: a successful call whose locked term comes from an
\* amount_initially_locked_native above amount_deposited_native.
C2_Witness ==
    /\ Computed /\ IsOk(power.result)
    /\ deposit.amount_initially_locked_native > deposit.amount_deposited_native
    /\ power.baseline_vote_weight.val > 0
    /\ power.locked_vote_weight.val > power.baseline_vote_weight.val
    /\ power.result.val = power.baseline_vote_weight.val + power.locked_vote_weight.val

\* C3: for a Daily or Monthly deposit with periodsLeft(now) > 0 and
\* secsToClosestCliff < saturation_secs the locked weight returned is
\* floor(maxLockedWeight * S / (periodsTotal * saturation_secs)), S the
\* per-cliff sum.
C3_ClosedFormIsCliffSum ==
    (/\ Computed /\ deposit.lockup.kind \in LinearKinds
     /\ IsOk(power.max_locked_vote_weight)
     /\ CliffsAhead
     /\ SecsToClosestCliff < Config.lockup_saturation_secs)
    => /\ IsOk(power.locked_vote_weight)
       /\ power.locked_vote_weight.val =
            (power.max_locked_vote_weight.val
               * CliffSum(PeriodsLeftNow.val, SecsToClosestCliff,
                          period_secs(deposit.lockup.kind), Config.lockup_saturation_secs))
            \div (PeriodsTotal.val * Config.lockup_saturation_secs)

\* The same equality at every call that returns a value.
ClosedFormIsCliffSumWhenReturned ==
    (/\ Computed /\ deposit.lockup.kind \in LinearKinds
     /\ IsOk(power.max_locked_vote_weight)
     /\ CliffsAhead
     /\ SecsToClosestCliff < Config.lockup_saturation_secs
     /\ IsOk(power.locked_vote_weight))
    => power.locked_vote_weight.val =
            (power.max_locked_vote_weight.val
               * CliffSum(PeriodsLeftNow.val, SecsToClosestCliff,
                          period_secs(deposit.lockup.kind), Config.lockup_saturation_secs))
            \div (PeriodsTotal.val * Config.lockup_saturation_secs)

ClosedFormReturned ==
    /\ Computed /\ deposit.lockup.kind \in LinearKinds
    /\ IsOk(power.max_locked_vote_weight)
    /\ CliffsAhead
    /\ SecsToClosestCliff < Config.lockup_saturation_secs
    /\ IsOk(power.locked_vote_weight)
    /\ PeriodsLeftNow.val >= 2
    /\ power.locked_vote_weight.val > 0
    /\ power.locked_vote_weight.val < power.max_locked_vote_weight.val

\* C4: for a Cliff or Constant deposit that is not expired at now, with
\* maxLockedWeight > 0 and saturation_secs > 0, the locked weight is
\* floor(maxLockedWeight * min(secondsLeft(now), saturation_secs) / saturation_secs);
\* in the scenario it is 1,000,000 at now = 0, 500,000 at now = 500 and 0 at
\* now = 1000 and now = 1500 (amounts in units of 1,000).
C4_CliffExact ==
    /\ (/\ Computed /\ deposit.lockup.kind \in CliffKinds
        /\ IsOk(power.max_locked_vote_weight) /\ power.max_locked_vote_weight.val > 0
        /\ IsOk(SecondsLeftNow) /\ SecondsLeftNow.val > 0
        /\ Config.lockup_saturation_secs > 0)
       => power.locked_vote_weight =
            Ok((power.max_locked_vote_weight.val
                  * Min(SecondsLeftNow.val, Config.lockup_saturation_secs))
               \div Config.lockup_saturation_secs)
    /\ (Computed /\ deposit = ScenarioDeposit /\ Config = ScenarioConfig)
       => power.locked_vote_weight =
            Ok(CASE current_ts = 0 -> 1000000 \div 1000
                 [] current_ts = 500 -> 500000 \div 1000
                 [] current_ts = 1000 -> 0
                 [] current_ts = 1500 -> 0
                 [] OTHER -> 0 - 1)

\* C4 witness: the scenario half way through the lockup.
C4_Witness ==
    /\ Computed /\ deposit = ScenarioDeposit /\ Config = ScenarioConfig
    /\ current_ts = 500
    /\ power.locked_vote_weight = Ok(500000 \div 1000)

\* C5: with saturation_secs > 0 every locked weight returned is at most
\* maxLockedWeight, the narrowing to u64 in the cliff and linear-vesting
\* formulas never fails, and voting_power never fails with
\* VotingPowerInvariantViolation.
C5_LockedAtMostMax ==
    Computed =>
        /\ (Config.lockup_saturation_secs > 0 /\ IsOk(power.locked_vote_weight))
              => power.locked_vote_weight.val <= power.max_locked_vote_weight.val
        /\ power.locked_vote_weight # Err(TryFromIntError)
        /\ power.result # Err(VotingPowerInvariantViolation)

\* C5 witness: a Monthly deposit part way decayed, its weight strictly
\* between 0 and maxLockedWeight.
C5_Witness ==
    /\ Computed /\ Config.lockup_saturation_secs > 0
    /\ IsOk(power.locked_vote_weight)
    /\ power.locked_vote_weight.val > 0
    /\ power.locked_vote_weight.val < power.max_locked_vote_weight.val
    /\ deposit.lockup.kind = "Monthly"

LockedAt(now) ==
    voting_power_locked(deposit, now, power.max_locked_vote_weight.val,
                        Config.lockup_saturation_secs)

\* C7: for a Daily, Monthly or Cliff deposit the locked weight is
\* non-increasing in now: whenever it is computed at now1 <= now2, the
\* weight at now2 is at most the weight at now1.
C7_LockedNonIncreasing ==
    (/\ Computed /\ deposit.lockup.kind \in {"Daily", "Monthly", "Cliff"}
     /\ IsOk(power.locked_vote_weight))
    => \A now1 \in TimeSamples :
          (now1 <= current_ts /\ IsOk(LockedAt(now1)))
             => power.locked_vote_weight.val <= LockedAt(now1).val

\* C8: for a Daily or Monthly deposit, whenever the computation succeeds and
\* periodsTotal > 0, the locked weight is at most
\* maxLockedWeight * periodsLeft(now) / periodsTotal.
C8_VestedCliffsContributeNothing ==
    (/\ Computed /\ deposit.lockup.kind \in LinearKinds
     /\ IsOk(power.locked_vote_weight)
     /\ IsOk(PeriodsLeftNow) /\ IsOk(PeriodsTotal) /\ PeriodsTotal.val > 0)
    => power.locked_vote_weight.val * PeriodsTotal.val
          <= power.max_locked_vote_weight.val * PeriodsLeftNow.val

\* ------------------------------------------------------------------------
\* Properties of insert_vemnde (checked under Spec)
\* ------------------------------------------------------------------------

\* insert_vemnde has run its fold for the voter in hand.
Folded == voter # NoVoter /\ pc \in {"await_response", "failed", "panicked"}

UsedSlots(v) == {i \in 1..Len(v.deposits) : v.deposits[i].is_used}

\* votingPower(deposit, registrar.voting_mints[deposit.voting_mint_config_idx], now)
\* of slot i, taken on its own.
DepositPower(v, i) ==
    IF v.deposits[i].voting_mint_config_idx \notin DOMAIN vsr_registrar
    THEN Panic("index out of bounds")
    ELSE voting_power(v.deposits[i], vsr_registrar[v.deposits[i].voting_mint_config_idx],
                      current_ts)

RECURSIVE PowerSum(_, _)
PowerSum(v, S) ==
    IF S = {} THEN 0
    ELSE LET i == CHOOSE j \in S : TRUE
         IN  DepositPower(v, i).val + PowerSum(v, S \ {i})

AllUsedSucceed(v) == \A i \in UsedSlots(v) : IsOk(DepositPower(v, i))

\* What an unused slot may hold: any sampled entry, marked unused.
UnusedContents == {[d EXCEPT !.is_used = FALSE] : d \in BatchDepositSamples}

\* C1: when every used deposit succeeds and the sum fits in u64, the total
\* is the sum of votingPower over the slots with is_used = true; replacing
\* the contents of a slot with is_used = false changes neither the total nor
\* the outcome; a voter with no used slot has total 0.
C1_SumOfUsedDeposits ==
    Folded =>
        /\ (AllUsedSucceed(voter) /\ PowerSum(voter, UsedSlots(voter)) <= U64_MAX)
              => total = Ok(PowerSum(voter, UsedSlots(voter)))
        /\ \A i \in (1..Len(voter.deposits)) \ UsedSlots(voter) :
              \A e \in UnusedContents :
                 voter_voting_power(vsr_registrar,
                                    [voter EXCEPT !.deposits[i] = e], current_ts) = total
        /\ (UsedSlots(voter) = {}) => total = Ok(0)

\* C1 witness: two used deposits with positive powers around an unused slot
\* that stores amounts at the top of the u64 range and a config index outside
\* the registrar; the row carries the sum of the two.
C1_Witness ==
    /\ Folded /\ pc = "await_response"
    /\ \E i, j \in UsedSlots(voter), k \in 1..Len(voter.deposits) :
          /\ i # j /\ UsedSlots(voter) = {i, j}
          /\ ~voter.deposits[k].is_used
          /\ voter.deposits[k].amount_deposited_native = U64_MAX
          /\ voter.deposits[k].voting_mint_config_idx \notin DOMAIN vsr_registrar
          /\ DepositPower(voter, i).val > 0 /\ DepositPower(voter, j).val > 0
          /\ DepositPower(voter, i).val # DepositPower(voter, j).val
          /\ total = Ok(DepositPower(voter, i).val + DepositPower(voter, j).val)
    /\ db_sender # <<>> /\ db_sender[Len(db_sender)].voting_power = total.val

\* C9: when every used deposit's votingPower succeeds and their sum exceeds
\* u64::MAX, the voter's computation returns the error VoterWeightOverflow.
C9_SumOverflowReturnsError ==
    (/\ Folded /\ AllUsedSucceed(voter)
     /\ PowerSum(voter, UsedSlots(voter)) > U64_MAX)
    => (total = Err(VoterWeightOverflow) /\ pc = "failed")

\* The first used slot whose votingPower returns an error.
FailingSlots(v) == {i \in UsedSlots(v) : IsErr(DepositPower(v, i))}
FirstFailingSlot(v) == CHOOSE i \in FailingSlots(v) : \A j \in FailingSlots(v) : i <= j

\* C10: if votingPower returns an error for a used deposit of the voter,
\* insert_vemnde returns that error, sends no Execute message and leaves the
\* progress counter as it was.
C10_FailingDepositAbortsVoter ==
    [][(pc = "scan" /\ voter' # NoVoter /\ FailingSlots(voter') # {})
        => /\ total' = DepositPower(voter', FirstFailingSlot(voter'))
           /\ pc' = "failed"
           /\ db_sender' = db_sender
           /\ vemnde_counter' = vemnde_counter]_vars

\* What does hold: a voter with a failing used deposit never gets a row and
\* never moves the counter, whether the fold returns or panics.
FailingDepositSendsNothing ==
    [][(pc = "scan" /\ voter' # NoVoter /\ FailingSlots(voter') # {})
        => /\ pc' \in {"failed", "panicked"}
           /\ db_sender' = db_sender
           /\ vemnde_counter' = vemnde_counter]_vars

\* ------------------------------------------------------------------------
\* Totality of the voting-power computation (checked under SpecVotingPower)
\* ------------------------------------------------------------------------

\* C11: every voting_power call ends in a u64 value or in a returned
\* VoterWeightOverflow, LockupPeriodMismatch or VotingPowerInvariantViolation
\* error; it never panics.
C11_NeverPanics ==
    Computed =>
        \/ IsOk(power.result) /\ power.result.val \in U64
        \/ power.result \in {Err(VoterWeightOverflow), Err(LockupPeriodMismatch),
                             Err(VotingPowerInvariantViolation)}

\* The panic that needs no extreme input and no overflow check: a cliff
\* deposit on a mint with lockup_saturation_secs = 0.
CliffOnZeroSaturationPanics ==
    (/\ Computed /\ deposit.lockup.kind \in CliffKinds
     /\ Config.lockup_saturation_secs = 0
     /\ IsOk(power.max_locked_vote_weight) /\ power.max_locked_vote_weight.val > 0
     /\ IsOk(SecondsLeftNow) /\ SecondsLeftNow.val > 0)
    => power.result = Panic("unwrap on None: checked_div")

\* ------------------------------------------------------------------------
\* Properties of the functions called on their own (checked under SpecCalls)
\* ------------------------------------------------------------------------

Called(fn) == ret.fn = fn

\* amount * 10^e on the integers, or NONE once it exceeds u64::MAX.
RECURSIVE ShiftUp(_, _)
ShiftUp(amount, e) ==
    IF e = 0 \/ amount = 0 THEN amount
    ELSE IF amount * 10 > U64_MAX THEN NONE
    ELSE ShiftUp(amount * 10, e - 1)

\* floor(amount / 10^e) on the integers.
RECURSIVE ShiftDown(_, _)
ShiftDown(amount, e) ==
    IF e = 0 \/ amount = 0 THEN amount
    ELSE ShiftDown(amount \div 10, e - 1)

DigitShifted(amount, digit_shift) ==
    IF digit_shift >= 0 THEN ShiftUp(amount, digit_shift)
    ELSE ShiftDown(amount, 0 - digit_shift)

\* C12: for every amount and every digit_shift of the i8 range,
\* digit_shift_native returns amount * 10^digit_shift, or
\* floor(amount / 10^(-digit_shift)) for a negative digit_shift, when that
\* value is at most u64::MAX, and fails with VoterWeightOverflow otherwise
\* (as for amount = 2^63 and digit_shift = 5); it never aborts.
C12_DigitShiftExact ==
    Called("digit_shift_native") =>
        LET v == DigitShifted(deposit.amount_deposited_native, Config.digit_shift)
        IN  ret.result = IF v = NONE THEN Err(VoterWeightOverflow) ELSE Ok(v)

\* The same for the shifts whose power of ten fits the u128 intermediate.
DigitShiftExactWhilePowerFits ==
    (/\ Called("digit_shift_native")
     /\ Config.digit_shift # I8_MIN
     /\ Pow10Checked(IF Config.digit_shift < 0 THEN 0 - Config.digit_shift
                     ELSE Config.digit_shift) # NONE)
    => LET v == DigitShifted(deposit.amount_deposited_native, Config.digit_shift)
       IN  ret.result = IF v = NONE THEN Err(VoterWeightOverflow) ELSE Ok(v)

\* digit_shift = i8::MIN without overflow checks: the negation wraps to
\* i8::MIN, the power of ten wraps to 0 and the division by it is refused.
DigitShiftMinRefused ==
    (Called("digit_shift_native") /\ Config.digit_shift = I8_MIN /\ ~overflow_checks)
    => ret.result = Err(VoterWeightOverflow)

DigitShiftOverflowExample ==
    /\ Called("digit_shift_native")
    /\ deposit.amount_deposited_native = Pow2(WordBits - 1)
    /\ Config.digit_shift = 5
    /\ ret.result = Err(VoterWeightOverflow)

\* floor(base * factor / SCALED_FACTOR_BASE) on the integers, refused above u64::MAX.
FactorApplied(base, factor) ==
    IF (base * factor) \div SCALED_FACTOR_BASE <= U64_MAX
    THEN Ok((base * factor) \div SCALED_FACTOR_BASE)
    ELSE Err(VoterWeightOverflow)

\* C13: apply_factor(base, factor) returns floor(base * factor / SCALED_FACTOR_BASE)
\* when that is at most u64::MAX and VoterWeightOverflow otherwise;
\* baseline_vote_weight and max_extra_lockup_vote_weight are that function of
\* the digit-shifted amount and of the baseline factor and the max extra
\* factor respectively.
C13_ApplyFactorExact ==
    /\ Called("apply_factor")
          => ret.result = FactorApplied(deposit.amount_deposited_native,
                                        Config.baseline_vote_weight_scaled_factor)
    /\ Called("baseline_vote_weight")
          => LET shifted == digit_shift_native(Config, deposit.amount_deposited_native)
             IN  ret.result = IF IsOk(shifted)
                              THEN FactorApplied(shifted.val,
                                                 Config.baseline_vote_weight_scaled_factor)
                              ELSE shifted
    /\ Called("max_extra_lockup_vote_weight")
          => LET shifted == digit_shift_native(Config, deposit.amount_initially_locked_native)
             IN  ret.result = IF IsOk(shifted)
                              THEN FactorApplied(shifted.val,
                                                 Config.max_extra_lockup_vote_weight_scaled_factor)
                              ELSE shifted

\* C13 witness: a product above u64::MAX whose quotient fits.
C13_Witness ==
    /\ Called("apply_factor")
    /\ deposit.amount_deposited_native * Config.baseline_vote_weight_scaled_factor > U64_MAX
    /\ IsOk(ret.result) /\ ret.result.val > deposit.amount_deposited_native

\* end_ts - effective on the integers, 0 once effective >= end_ts, with
\* effective = start_ts for a Constant lockup and now otherwise.
EffectiveTs(lockup, now) == IF lockup.kind = "Constant" THEN lockup.start_ts ELSE now
SecondsLeftExact(lockup, now) ==
    IF EffectiveTs(lockup, now) >= lockup.end_ts THEN 0
    ELSE lockup.end_ts - EffectiveTs(lockup, now)

\* C14: for all i64 start_ts, end_ts and now, seconds_left(now) returns 0
\* when effective >= end_ts and otherwise the exact difference
\* end_ts - effective as a u64, also when it exceeds i64::MAX; expired(now)
\* holds exactly when seconds_left(now) = 0.
C14_SecondsLeftExact ==
    /\ Called("seconds_left")
          => ret.result = Ok(SecondsLeftExact(deposit.lockup, current_ts))
    /\ Called("expired")
          => ret.result = Ok(IF SecondsLeftExact(deposit.lockup, current_ts) = 0
                             THEN 1 ELSE 0)

\* The same for every call that returns, and for every call of a build
\* without overflow checks.
SecondsLeftExactWhenReturned ==
    /\ (Called("seconds_left") /\ (IsOk(ret.result) \/ ~overflow_checks))
          => ret.result = Ok(SecondsLeftExact(deposit.lockup, current_ts))
    /\ (Called("expired") /\ (IsOk(ret.result) \/ ~overflow_checks))
          => ret.result = Ok(IF SecondsLeftExact(deposit.lockup, current_ts) = 0
                             THEN 1 ELSE 0)

\* A difference above i64::MAX returned exactly.
SecondsLeftAboveI64Returned ==
    /\ Called("seconds_left") /\ IsOk(ret.result) /\ ret.result.val > I64_MAX

\* 365 * SECS_PER_DAY / 12 in seconds, as line 421 computes it.
SecsPerMonthInSeconds == (365 * 86400) \div 12

PeriodsTotalCounted ==
    /\ Called("periods_total") /\ deposit.lockup.kind = "Monthly"
    /\ ret.result = Ok(2)

\* C16: periods_left(now) returns 0 when the period is 0, returns
\* periods_total() when now < start_ts, and otherwise returns
\* (secondsLeft(now) + periodSecs - 1) / periodSecs, the ceiling of
\* secondsLeft(now) / periodSecs.
C16_PeriodsLeft ==
    (Called("periods_left") /\ IsOk(seconds_left(deposit.lockup, current_ts)))
    => LET secs == SecondsLeftExact(deposit.lockup, current_ts)
           period == period_secs(deposit.lockup.kind)
       IN  ret.result = IF period = 0 THEN Ok(0)
                        ELSE IF current_ts < deposit.lockup.start_ts
                             THEN periods_total(deposit.lockup)
                        ELSE Ok((secs + period - 1) \div period)

\* The same for the lockups whose secondsLeft(now) + periodSecs - 1 fits a u64.
PeriodsLeftWhileSumFits ==
    (/\ Called("periods_left") /\ IsOk(seconds_left(deposit.lockup, current_ts))
     /\ SecondsLeftExact(deposit.lockup, current_ts)
           + period_secs(deposit.lockup.kind) <= U64_MAX + 1)
    => LET secs == SecondsLeftExact(deposit.lockup, current_ts)
           period == period_secs(deposit.lockup.kind)
       IN  ret.result = IF period = 0 THEN Ok(0)
                        ELSE IF current_ts < deposit.lockup.start_ts
                             THEN periods_total(deposit.lockup)
                        ELSE Ok((secs + period - 1) \div period)

\* A ceiling taken: a started lockup with a broken period left.
PeriodsLeftRoundedUp ==
    /\ Called("periods_left") /\ IsOk(ret.result)
    /\ current_ts >= deposit.lockup.start_ts
    /\ period_secs(deposit.lockup.kind) > 0
    /\ SecondsLeftExact(deposit.lockup, current_ts) % period_secs(deposit.lockup.kind) # 0
    /\ ret.result.val >= 2

\* ------------------------------------------------------------------------
\* Properties of voting_power_locked in time (checked under SpecVotingPower)
\* ------------------------------------------------------------------------

\* voting_power has called voting_power_locked.
LockedCalled == Computed /\ IsOk(power.max_locked_vote_weight)

\* C17: voting_power_locked returns 0 whenever the kind is None, or the
\* lockup is expired at now, or maxLockedWeight is 0, whatever the lockup
\* kind, the lockup duration and lockup_saturation_secs are.
C17_ZeroWithoutArithmetic ==
    (/\ LockedCalled
     /\ \/ deposit.lockup.kind = "None"
        \/ SecondsLeftExact(deposit.lockup, current_ts) = 0
        \/ power.max_locked_vote_weight.val = 0)
    => power.locked_vote_weight = Ok(0)

\* The same whenever expired(now) returns: the three cases return 0 before
\* any period or decay arithmetic, also with saturation 0 and with a lockup
\* that is no multiple of its period.
ZeroOnceExpiredReturns ==
    (/\ LockedCalled
     /\ IsOk(expired(deposit.lockup, current_ts))
     /\ \/ deposit.lockup.kind = "None"
        \/ SecondsLeftExact(deposit.lockup, current_ts) = 0
        \/ power.max_locked_vote_weight.val = 0)
    => power.locked_vote_weight = Ok(0)

\* An expired Daily lockup that is no multiple of its period, on a mint
\* with saturation 0, weighing 0.
ZeroWithMismatchAndNoSaturation ==
    /\ LockedCalled /\ deposit.lockup.kind = "Daily"
    /\ power.max_locked_vote_weight.val > 0
    /\ IsErr(PeriodsTotal)
    /\ Config.lockup_saturation_secs = 0
    /\ power.locked_vote_weight = Ok(0)

\* C18: for a lockup of a kind other than Constant, seconds_left(now) is
\* non-increasing as now increases, and once seconds_left(t) = 0 the lockup
\* is expired and the locked weight is 0 at every now >= t.
C18_ExpiryIsFinal ==
    (LockedCalled /\ deposit.lockup.kind # "Constant")
    => \A t \in TimeSamples :
          t <= current_ts
          => /\ (IsOk(seconds_left(deposit.lockup, t)) /\ IsOk(SecondsLeftNow))
                   => SecondsLeftNow.val <= seconds_left(deposit.lockup, t).val
             /\ seconds_left(deposit.lockup, t) = Ok(0)
                   => /\ expired(deposit.lockup, current_ts) = Ok(1)
                      /\ power.locked_vote_weight = Ok(0)

\* C18 witness: a Daily lockup that carried weight at an earlier time,
\* ran out at a later one and weighs 0 now.
C18_Witness ==
    /\ LockedCalled /\ deposit.lockup.kind = "Daily"
    /\ power.max_locked_vote_weight.val > 0
    /\ \E t1, t2 \in TimeSamples :
          /\ t1 < t2 /\ t2 < current_ts
          /\ IsOk(LockedAt(t1)) /\ LockedAt(t1).val > 0
          /\ seconds_left(deposit.lockup, t2) = Ok(0)
    /\ power.locked_vote_weight = Ok(0)

\* The second query time of a comparison: before, inside and after the
\* sampled lockups, and the ends of the i64 range.
OtherTimeSamples == {I64_MIN, 0, SECS_PER_DAY + 1, 2 * SECS_PER_MONTH, I64_MAX}

C20_NoWeightWithoutSaturation ==
    (LockedCalled /\ IsOk(power.locked_vote_weight) /\ power.locked_vote_weight.val > 0)
    => Config.lockup_saturation_secs > 0

\* With saturation 0 a live Daily or Monthly deposit with periods left
\* weighs the whole maxLockedWeight whenever it returns a weight, and a Cliff
\* or Constant deposit returns no weight.
WholeWeightWithoutSaturation ==
    (/\ LockedCalled /\ Config.lockup_saturation_secs = 0
     /\ power.max_locked_vote_weight.val > 0)
    => /\ (deposit.lockup.kind \in LinearKinds /\ IsOk(power.locked_vote_weight)
             /\ IsOk(SecondsLeftNow) /\ SecondsLeftNow.val > 0 /\ CliffsAhead)
          => power.locked_vote_weight = Ok(power.max_locked_vote_weight.val)
       /\ (deposit.lockup.kind \in CliffKinds /\ IsOk(power.locked_vote_weight))
          => power.locked_vote_weight = Ok(0)

\* ------------------------------------------------------------------------
\* Order of the deposit slots and of the voters (checked under Spec)
\* ------------------------------------------------------------------------

\* The voter v with its deposit slots rearranged by the permutation p.
Permuted(v, p) == [v EXCEPT !.deposits = [i \in 1..Len(v.deposits) |-> v.deposits[p[i]]]]

SlotPermutations == Permutations(1..DepositSlots)

\* C21: for any voter and any permutation of its deposit slots the
\* aggregation succeeds for the permuted voter exactly when it succeeds for
\* the original one, and then with the same total.
C21_SlotOrderIrrelevant ==
    Folded =>
        \A p \in SlotPermutations :
            LET permuted == voter_voting_power(vsr_registrar, Permuted(voter, p), current_ts)
            IN  /\ IsOk(permuted) <=> IsOk(total)
                /\ IsOk(total) => permuted = total

\* C21 witness: a row was sent for a voter whose slots hold a used deposit
\* with positive power, an unused slot, and a second used deposit with a
\* different power, in this order.
C21_Witness ==
    /\ Folded /\ pc = "await_response" /\ IsOk(total)
    /\ DepositSlots >= 3
    /\ voter.deposits[1].is_used /\ ~voter.deposits[2].is_used /\ voter.deposits[3].is_used
    /\ DepositPower(voter, 1).val > 0 /\ DepositPower(voter, 3).val > 0
    /\ DepositPower(voter, 1).val # DepositPower(voter, 3).val
    /\ total.val = DepositPower(voter, 1).val + DepositPower(voter, 3).val

\* The kind of failure is not covered by C21 and does depend on the order:
\* a voter whose fold returns an error has an arrangement of the same slots
\* on which the fold panics.
FailureKindDependsOnOrder ==
    /\ Folded /\ IsErr(total)
    /\ \E p \in SlotPermutations :
          IsPanic(voter_voting_power(vsr_registrar, Permuted(voter, p), current_ts))

\* process has ended: it returned, or its task was ended by a panic.
ProcessEnded == pc \in {"done", "panicked"}

\* C22: the outcome recorded for a voter depends only on the registrar, the
\* voter's own record and now.  The total of the voter in hand is the fold
\* over its own deposits, the row sent for it carries that total, and every
\* account of the scan has had its turn when process ends, whatever the
\* outcome of the accounts visited before it.
C22_OutcomeOfOwnRecordOnly ==
    /\ Folded => total = voter_voting_power(vsr_registrar, voter, current_ts)
    /\ (Folded /\ pc = "await_response" /\ db_sender # <<>>)
          => db_sender[Len(db_sender)].voting_power = total.val
    /\ ProcessEnded => scanned = MaxVoters

\* As long as no fold panics the loop reaches every account: an error of
\* one voter is logged and the scan goes on.
EveryAccountVisitedUnlessPanic ==
    /\ pc = "done" => scanned = MaxVoters
    /\ pc = "failed" => (IsErr(total) /\ ENABLED LogFailure)

\* A voter whose fold returned an error was followed by a voter whose row
\* was sent.
RowAfterFailedVoter ==
    /\ scanned = 2 /\ error_log = 1 /\ pc = "await_response" /\ IsOk(total)
    /\ db_sender # <<>>

\* ------------------------------------------------------------------------
\* SQLiteExecutor (db_connection.rs) and TempFileGuard (temp_file.rs)
\* ------------------------------------------------------------------------

\* transaction_batch_counter and tx_bulk are u16: an unsigned word of
\* ShortBits bits here.
ShortBits == 2
U16_MAX == Pow2(ShortBits) - 1
U16SaturatingAdd(a, b) == Min(a + b, U16_MAX)

\* SQLite, as the connection of connect_db answers the statements of the
\* executor.  BEGIN is refused inside a transaction ("cannot start a
\* transaction within a transaction"), COMMIT is refused outside of one
\* ("cannot commit - no transaction is active"); a row inserted outside a
\* transaction is committed at once, a row inserted inside is committed by
\* the COMMIT.
SqlBegin(d) ==
    IF d.in_transaction THEN [db |-> d, ok |-> FALSE]
    ELSE [db |-> [d EXCEPT !.in_transaction = TRUE], ok |-> TRUE]

SqlCommit(d) ==
    IF ~d.in_transaction THEN [db |-> d, ok |-> FALSE]
    ELSE [db |-> [in_transaction |-> FALSE, committed |-> d.committed + d.uncommitted,
                  uncommitted |-> 0],
          ok |-> TRUE]

SqlInsert(d, succeeds) ==
    IF ~succeeds THEN d
    ELSE IF d.in_transaction THEN [d EXCEPT !.uncommitted = @ + 1]
    ELSE [d EXCEPT !.committed = @ + 1]

\* Closing the connection rolls the open transaction back.
SqlClose(d) == [in_transaction |-> FALSE, committed |-> d.committed, uncommitted |-> 0]

\* One statement as it reached SQLite: whether a transaction was open, how
\* many rows that transaction held, and whether the statement succeeded.
Issued(stmt, d, ok) ==
    [stmt |-> stmt, in_transaction |-> d.in_transaction, tx_inserts |-> d.uncommitted,
     ok |-> ok]

\* What a method of the executor leaves behind and returns.
Returned(counter, d, result, log) ==
    [transaction_batch_counter |-> counter, db |-> d, result |-> result, issued |-> log]

\* Lines 56-80: SQLiteExecutor::execute.  `outcome` says whether the
\* statement of the message prepares and executes.
execute(bulk, counter, d, outcome) ==
    LET begins == bulk # NONE /\ counter = 0
        b == SqlBegin(d)
        log1 == IF begins THEN <<Issued("BEGIN", d, b.ok)>> ELSE <<>>
        d1 == IF begins THEN b.db ELSE d
        c1 == IF begins THEN 1 ELSE counter
    IN  IF begins /\ ~b.ok THEN Returned(counter, d, Err("BEGIN"), log1)
        ELSE IF outcome = "prepare_fails" THEN Returned(c1, d1, Err("prepare"), log1)
        ELSE LET c2 == U16SaturatingAdd(c1, 1)
                 inserted == outcome = "ok"
                 d2 == SqlInsert(d1, inserted)
                 result == IF inserted THEN Ok(1) ELSE Err("execute")
                 log2 == Append(log1, Issued("INSERT", d1, inserted))
             IN  IF bulk = NONE THEN Returned(c2, d2, result, log2)
                 ELSE IF bulk = 0
                      THEN Returned(c2, d2, Panic("remainder with a divisor of zero"), log2)
                 ELSE IF c2 % bulk = 0 \/ c2 = U16_MAX
                      THEN LET c == SqlCommit(d2)
                               log3 == Append(log2, Issued("COMMIT", d2, c.ok))
                           IN  IF ~c.ok THEN Returned(c2, d2, Err("COMMIT"), log3)
                               ELSE Returned(0, c.db, result, log3)
                 ELSE Returned(c2, d2, result, log2)

\* Lines 84-106: SQLiteExecutor::execute_special.
execute_special(bulk, counter, d, outcome) ==
    LET commits == bulk # NONE /\ counter > 0
        c == SqlCommit(d)
        log1 == IF commits THEN <<Issued("COMMIT", d, c.ok)>> ELSE <<>>
        d1 == IF commits THEN c.db ELSE d
    IN  IF commits /\ ~c.ok THEN Returned(counter, d, Err("COMMIT"), log1)
        ELSE LET ok == outcome = "ok"
                 result == IF ok THEN Ok(0) ELSE Err("execute")
                 log2 == Append(log1, Issued("SPECIAL", d1, ok))
             IN  IF bulk = NONE THEN Returned(counter, d1, result, log2)
                 ELSE IF bulk = 0
                      THEN Returned(counter, d1, Panic("remainder with a divisor of zero"), log2)
                 ELSE IF counter % bulk = 0
                      THEN LET b == SqlBegin(d1)
                               log3 == Append(log2, Issued("BEGIN", d1, b.ok))
                           IN  IF ~b.ok THEN Returned(counter, d1, Err("BEGIN"), log3)
                               ELSE Returned(1, b.db, result, log3)
                 ELSE Returned(counter, d1, result, log2)

\* Lines 13-18 of temp_file.rs: TempFileGuard::promote takes the path out of
\* the guard, panics when it was taken before, and renames the file.
promote(guard, f, rename_ok) ==
    IF guard = "None"
    THEN [guard |-> guard, files |-> f, result |-> Panic("cannot promote non-existent file")]
    ELSE IF rename_ok /\ f.temp
         THEN [guard |-> "None",
               files |-> [temp |-> FALSE, output |-> TRUE, promotions |-> f.promotions + 1],
               result |-> Ok(0)]
    ELSE [guard |-> "None", files |-> f, result |-> Err("rename")]

\* Lines 167-181: SQLiteExecutor::finalize.
finalize(bulk, counter, d, guard, f, rename_ok) ==
    LET commits == bulk # NONE /\ counter > 0
        c == SqlCommit(d)
        log1 == IF commits THEN <<Issued("COMMIT", d, c.ok)>> ELSE <<>>
        d1 == IF commits THEN c.db ELSE d
    IN  IF commits /\ ~c.ok
        THEN [db |-> d, guard |-> guard, files |-> f, result |-> Err("COMMIT"), issued |-> log1]
        ELSE LET p == promote(guard, f, rename_ok)
             IN  [db |-> d1, guard |-> p.guard, files |-> p.files, result |-> p.result,
                  issued |-> log1]

\* Lines 21-29 of temp_file.rs: Drop for TempFileGuard removes the file
\* while the guard still holds its path.
drop_guard(guard, f) == IF guard = "Some" THEN [f EXCEPT !.temp = FALSE] ELSE f

\* Capacity of the mpsc channel (1000 unless --channel-size is given) and
\* number of messages the senders send in a run.
ChannelSize == 2
MaxMessages == 4

\* The settings of --sqlite-tx-bulk.
TxBulkSamples == {NONE} \cup 0..U16_MAX

\* The DbMessages by what their handling meets: a statement that executes,
\* one that fails in prepare or in execute, a rename that succeeds or fails.
MessageSamples ==
    {[kind |-> "Execute", outcome |-> o] : o \in {"ok", "prepare_fails", "execute_fails"}}
    \cup {[kind |-> "ExecuteSpecial", outcome |-> o] : o \in {"ok", "execute_fails"}}
    \cup {[kind |-> "Shutdown", outcome |-> o] : o \in {"ok", "rename_fails"}}

\* main after SQLiteExecutor::new succeeded and start was called.
InitExecutor ==
    /\ overflow_checks \in BOOLEAN
    /\ vsr_registrar = BatchRegistrar
    /\ current_ts = 0
    /\ deposit = NoDeposit /\ power = NoFrame /\ ret = NoCall
    /\ ProcessIdle
    /\ tx_bulk \in TxBulkSamples
    /\ transaction_batch_counter = 0 /\ shut_down = FALSE
    /\ db_temp_guard = "Some" /\ db = EmptyDb /\ files = TempFileOnly
    /\ receiver = <<>> /\ senders = TRUE /\ executor_pc = "running"
    /\ issued = <<>> /\ taken = <<>> /\ seen = {} /\ answered = <<>> /\ last_result = NotEvaluated

Sent == Len(taken) + Len(receiver)

\* A processor, or main, sends a message; the send waits while the channel
\* is full and fails once the receiver is gone.
Send(m) ==
    /\ senders /\ executor_pc = "running"
    /\ Len(receiver) < ChannelSize
    /\ Sent < MaxMessages
    /\ receiver' = Append(receiver, [kind |-> m.kind, outcome |-> m.outcome, id |-> Sent + 1])
    /\ UNCHANGED <<engine_vars, call_vars, process_vars, tx_bulk, transaction_batch_counter, shut_down, db_temp_guard, db, files, senders, executor_pc, issued, taken, seen, answered, last_result>>

\* main drops the last Sender.
DropSenders ==
    /\ senders
    /\ senders' = FALSE
    /\ UNCHANGED <<engine_vars, call_vars, process_vars, tx_bulk, transaction_batch_counter, shut_down, db_temp_guard, db, files, receiver, executor_pc, issued, taken, seen, answered, last_result>>

\* The loop of start has taken msg and its handler returned `result`: the
\* result is sent on the oneshot channel of msg.  A panic of the handler
\* unwinds start: the executor is dropped, its connection closed and its
\* guard dropped, and nothing is sent.
Answer(msg, result, d, guard, f) ==
    /\ receiver' = Tail(receiver)
    /\ taken' = Append(taken, msg.id)
    /\ seen' = seen \cup {msg.kind} \cup (IF msg.outcome \in {"prepare_fails", "execute_fails"} THEN {"failed statement"} ELSE {})
    /\ IF IsPanic(result)
       THEN /\ executor_pc' = "panicked"
            /\ db' = SqlClose(d)
            /\ db_temp_guard' = guard
            /\ files' = drop_guard(guard, f)
            /\ last_result' = result
            /\ UNCHANGED answered
       ELSE /\ executor_pc' = "running"
            /\ db' = d
            /\ db_temp_guard' = guard
            /\ files' = f
            /\ answered' = Append(answered, msg.id)
            /\ last_result' = result

\* Lines 138-145 of start: an Execute message.
HandleExecute ==
    /\ executor_pc = "running" /\ receiver # <<>>
    /\ Head(receiver).kind = "Execute"
    /\ LET r == execute(tx_bulk, transaction_batch_counter, db, Head(receiver).outcome)
       IN  /\ transaction_batch_counter' = r.transaction_batch_counter
           /\ issued' = r.issued
           /\ Answer(Head(receiver), r.result, r.db, db_temp_guard, files)
    /\ UNCHANGED <<engine_vars, call_vars, process_vars, tx_bulk, shut_down, senders>>

\* Lines 146-155 of start: an ExecuteSpecial message.
HandleExecuteSpecial ==
    /\ executor_pc = "running" /\ receiver # <<>>
    /\ Head(receiver).kind = "ExecuteSpecial"
    /\ LET r == execute_special(tx_bulk, transaction_batch_counter, db, Head(receiver).outcome)
       IN  /\ transaction_batch_counter' = r.transaction_batch_counter
           /\ issued' = r.issued
           /\ Answer(Head(receiver), r.result, r.db, db_temp_guard, files)
    /\ UNCHANGED <<engine_vars, call_vars, process_vars, tx_bulk, shut_down, senders>>

\* Lines 156-162 of start: a Shutdown message.
HandleShutdown ==
    /\ executor_pc = "running" /\ receiver # <<>>
    /\ Head(receiver).kind = "Shutdown"
    /\ LET r == finalize(tx_bulk, transaction_batch_counter, db, db_temp_guard, files, Head(receiver).outcome = "ok")
       IN  /\ shut_down' = (shut_down \/ IsOk(r.result))
           /\ issued' = r.issued
           /\ Answer(Head(receiver), r.result, r.db, r.guard, r.files)
    /\ UNCHANGED <<engine_vars, call_vars, process_vars, tx_bulk, transaction_batch_counter, senders>>

\* Line 136 of start: recv returns None once the channel is empty and every
\* Sender is dropped; start returns and the executor is dropped.
LoopEnds ==
    /\ executor_pc = "running" /\ receiver = <<>> /\ ~senders
    /\ executor_pc' = "ended"
    /\ db' = SqlClose(db)
    /\ files' = drop_guard(db_temp_guard, files)
    /\ UNCHANGED <<engine_vars, call_vars, process_vars, tx_bulk, transaction_batch_counter, shut_down, db_temp_guard, receiver, senders, issued, taken, seen, answered, last_result>>

NextExecutor ==
    \/ \E m \in MessageSamples : Send(m)
    \/ DropSenders
    \/ HandleExecute
    \/ HandleExecuteSpecial
    \/ HandleShutdown
    \/ LoopEnds

SpecExecutor == InitExecutor /\ [][NextExecutor]_vars

\* ------------------------------------------------------------------------
\* Properties of SQLiteExecutor (checked under SpecExecutor)
\* ------------------------------------------------------------------------

\* The COMMITs among the statements of the last handler.
Commits == {i \in DOMAIN issued : issued[i].stmt = "COMMIT"}

\* Only Execute messages were taken so far and their statements succeeded.
OnlyExecutes == seen \subseteq {"Execute"}

\* C23: with tx_bulk = Some(n), n >= 1, and only Execute messages, inserts
\* are grouped into transactions of exactly n inserts: a COMMIT is issued
\* when the open transaction holds n inserts and never earlier, and no
\* transaction is left open with n inserts.
C23_TransactionsOfBulkSize ==
    (tx_bulk # NONE /\ tx_bulk >= 1 /\ OnlyExecutes /\ executor_pc = "running")
        => /\ \A i \in Commits : issued[i].tx_inserts = tx_bulk
           /\ db.uncommitted < tx_bulk

\* What execute does: the counter is set to 1 by the BEGIN and counts the
\* first insert as 2, so a transaction is committed when it holds n - 1
\* inserts (1 insert when n = 1).
TransactionsOfOneLessThanBulkSize ==
    (tx_bulk # NONE /\ tx_bulk >= 1 /\ OnlyExecutes /\ executor_pc = "running")
        => /\ \A i \in Commits :
                 /\ issued[i].ok
                 /\ issued[i].tx_inserts = IF tx_bulk = 1 THEN 1 ELSE tx_bulk - 1
           /\ db.uncommitted < (IF tx_bulk = 1 THEN 1 ELSE tx_bulk - 1)

\* A COMMIT closed a transaction of two inserts under tx_bulk = Some(3).
TwoInsertsCommittedUnderBulkThree ==
    /\ tx_bulk = 3 /\ OnlyExecutes /\ Len(taken) >= 2
    /\ \E i \in Commits : issued[i].ok /\ issued[i].tx_inserts = 2

\* Only Execute and ExecuteSpecial messages were taken so far, and their
\* statements succeeded.
StatementsSucceeded == seen \subseteq {"Execute", "ExecuteSpecial"}

\* The Shutdown at the head of the channel is handled and its rename is
\* not refused by the file system.
ShutdownHandled == HandleShutdown /\ Head(receiver).outcome = "ok"

\* finalize succeeded: Ok was answered, the temporary file is at the output
\* path and no inserted row is left uncommitted.
Finalized ==
    /\ IsOk(last_result) /\ answered # <<>> /\ answered[Len(answered)] = taken[Len(taken)]
    /\ files.output /\ ~files.temp
    /\ ~db.in_transaction /\ db.uncommitted = 0

\* C24: for every tx_bulk setting and every interleaving of Execute and
\* ExecuteSpecial messages whose statements succeed, the executor is there
\* to take a following Shutdown, and the Shutdown succeeds: the open
\* transaction is committed and the temporary file promoted, so every
\* inserted row is committed in the promoted file.
C24_ShutdownSucceeds ==
    /\ [](StatementsSucceeded => executor_pc # "panicked")
    /\ [][(ShutdownHandled /\ StatementsSucceeded) => Finalized']_vars

\* The same without transaction bulks, and with bulks of one insert.
ShutdownSucceedsWithoutBulk ==
    [][(ShutdownHandled /\ StatementsSucceeded /\ tx_bulk \in {NONE, 1}) => Finalized']_vars

\* With tx_bulk = Some(0) the first insert ends the executor.
ZeroBulkPanics ==
    /\ tx_bulk = 0 /\ StatementsSucceeded /\ executor_pc = "panicked"
    /\ ~files.temp /\ ~files.output

\* ------------------------------------------------------------------------
\* Further properties of one voting_power call (checked under SpecVotingPower)
\* ------------------------------------------------------------------------

\* end_ts - start_ts of the deposit in hand, on the integers.
Duration == deposit.lockup.end_ts - deposit.lockup.start_ts

\* A Daily or Monthly deposit whose duration is positive and no multiple of
\* its period, on a call that got as far as maxLockedWeight.
MismatchedDeposit ==
    /\ LockedCalled
    /\ deposit.lockup.kind \in LinearKinds
    /\ Duration > 0
    /\ Duration % period_secs(deposit.lockup.kind) # 0

\* The lockup is not expired at now and maxLockedWeight > 0.
LiveAndWeighted ==
    current_ts < deposit.lockup.end_ts /\ power.max_locked_vote_weight.val > 0

\* C25: a Daily or Monthly deposit whose duration is not a multiple of its
\* period makes voting_power fail with LockupPeriodMismatch at every now at
\* which the lockup is not expired and maxLockedWeight > 0, and at no other
\* now: expired or with maxLockedWeight = 0 it yields its baseline weight.
C25_MismatchExactlyWhileLive ==
    MismatchedDeposit =>
        IF LiveAndWeighted
        THEN power.result = Err(LockupPeriodMismatch)
        ELSE power.result = power.baseline_vote_weight

\* The same on every call that does not panic.
MismatchExactlyWhileLiveUnlessPanic ==
    (MismatchedDeposit /\ ~IsPanic(power.result)) =>
        IF LiveAndWeighted
        THEN power.result = Err(LockupPeriodMismatch)
        ELSE power.result = power.baseline_vote_weight

\* The mismatch is reported with the nearest cliff saturated.
MismatchWithSaturatedCliff ==
    /\ MismatchedDeposit /\ LiveAndWeighted
    /\ IsOk(SecondsLeftNow) /\ IsOk(PeriodsLeftNow)
    /\ SecsToClosestCliff >= Config.lockup_saturation_secs
    /\ Config.lockup_saturation_secs > 0
    /\ power.result = Err(LockupPeriodMismatch)

\* A lockup that ends before it starts counts as a lockup of no period:
\* before its end the deposit yields its baseline weight and no error.
EndBeforeStartIsNoMismatch ==
    /\ LockedCalled /\ deposit.lockup.kind \in LinearKinds
    /\ Duration < 0 /\ LiveAndWeighted
    /\ power.result = power.baseline_vote_weight

\* C26: for a deposit of kind None voting_power succeeds whenever
\* baselineVoteWeight(amount_deposited) succeeds, and equals it, for every
\* now, amount_initially_locked, max extra factor and saturation.
C26_NoLockupNeedsNoLockedWeight ==
    (Computed /\ deposit.lockup.kind = "None" /\ IsOk(power.baseline_vote_weight))
        => power.result = power.baseline_vote_weight

\* The same whenever max_extra_lockup_vote_weight and expired return.
NoLockupIsBaselineOnceLockedIsReached ==
    (/\ LockedCalled /\ deposit.lockup.kind = "None"
     /\ IsOk(expired(deposit.lockup, current_ts)))
        => power.result = power.baseline_vote_weight

\* A deposit of kind None fails on its amount_initially_locked_native alone.
NoLockupFailsOnLockedAmount ==
    /\ Computed /\ deposit.lockup.kind = "None"
    /\ IsOk(power.baseline_vote_weight)
    /\ power.max_locked_vote_weight = Err(VoterWeightOverflow)
    /\ power.result = Err(VoterWeightOverflow)
    /\ deposit.lockup.end_ts <= current_ts

\* ------------------------------------------------------------------------
\* periods_left against periods_total (checked under SpecCalls)
\* ------------------------------------------------------------------------

\* periods_left(now) was called for a lockup with end_ts >= start_ts for
\* which periods_total() succeeds.
PeriodsLeftOfCountedLockup ==
    /\ Called("periods_left")
    /\ deposit.lockup.end_ts >= deposit.lockup.start_ts
    /\ IsOk(periods_total(deposit.lockup))

\* periods_left(now) <= periods_total(), no later now has more periods left,
\* and with a period left the seconds to the nearest cliff,
\* secondsLeft(now) - periodSecs * (periods_left(now) - 1), are at least 1.
PeriodsLeftWithinTotal ==
    /\ IsOk(ret.result)
    /\ ret.result.val <= periods_total(deposit.lockup).val
    /\ \A later \in TimeSamples :
          later >= current_ts =>
              /\ IsOk(periods_left(deposit.lockup, later))
              /\ periods_left(deposit.lockup, later).val <= ret.result.val
              /\ deposit.lockup.kind = "Constant"
                    => periods_left(deposit.lockup, later) = ret.result
    /\ (ret.result.val >= 1 /\ IsOk(seconds_left(deposit.lockup, current_ts)))
          => seconds_left(deposit.lockup, current_ts).val
                - period_secs(deposit.lockup.kind) * (ret.result.val - 1) >= 1

\* C27: for every lockup with end_ts >= start_ts for which periods_total()
\* succeeds, periods_left(now) <= periods_total() for every now, periods_left
\* is non-increasing as now increases (constant for kind Constant), and
\* whenever periods_left(now) >= 1 the subtraction
\* secondsLeft(now) - periodSecs * (periods_left(now) - 1) yields a value >= 1.
C27_PeriodsLeftWithinTotal == PeriodsLeftOfCountedLockup => PeriodsLeftWithinTotal

\* The same for the lockups on which no periods_left(later) panics.
PeriodsLeftWithinTotalWhenReturned ==
    (/\ PeriodsLeftOfCountedLockup
     /\ \A later \in TimeSamples :
           later >= current_ts => ~IsPanic(periods_left(deposit.lockup, later)))
        => PeriodsLeftWithinTotal

\* Fewer periods are left than the lockup has, with a live cliff ahead.
SomePeriodsGone ==
    /\ PeriodsLeftOfCountedLockup /\ IsOk(ret.result)
    /\ ret.result.val >= 1
    /\ ret.result.val < periods_total(deposit.lockup).val

\* ------------------------------------------------------------------------
\* Bookkeeping, promotion and answers of SQLiteExecutor (checked under
\* SpecExecutor)
\* ------------------------------------------------------------------------

\* transaction_batch_counter > 0 exactly when a transaction is open, and
\* the statements of the last handler met the transaction state they are
\* meant for: COMMIT and the insert of Execute inside a transaction, BEGIN
\* and the statement of ExecuteSpecial outside of one.
BookkeepingMatchesDb ==
    /\ (transaction_batch_counter > 0) <=> db.in_transaction
    /\ \A i \in DOMAIN issued :
          /\ issued[i].stmt \in {"COMMIT", "INSERT"} => issued[i].in_transaction
          /\ issued[i].stmt \in {"BEGIN", "SPECIAL"} => ~issued[i].in_transaction

\* C28: with tx_bulk = Some(n), n >= 2, after any sequence of Execute and
\* ExecuteSpecial messages (here: of messages whose statements succeed) the
\* bookkeeping matches the database.
C28_BookkeepingMatchesDb ==
    (tx_bulk # NONE /\ tx_bulk >= 2 /\ StatementsSucceeded /\ executor_pc = "running")
        => BookkeepingMatchesDb

\* The same for sequences of Execute messages alone, failing statements
\* included, and for bulks of one insert.
BookkeepingMatchesDbWithExecutesOnly ==
    (/\ tx_bulk # NONE /\ tx_bulk >= 1
     /\ seen \subseteq {"Execute", "ExecuteSpecial", "failed statement"}
     /\ ("ExecuteSpecial" \notin seen \/ tx_bulk = 1)
     /\ executor_pc = "running")
        => BookkeepingMatchesDb

\* An insert ran outside any transaction and the COMMIT after it was
\* refused: the Execute is answered with the error of the COMMIT although
\* its row is in the database.
InsertAnsweredWithCommitError ==
    /\ tx_bulk # NONE /\ tx_bulk >= 2 /\ seen = {"Execute", "ExecuteSpecial"}
    /\ Len(issued) = 2
    /\ issued[1].stmt = "INSERT" /\ issued[1].ok /\ ~issued[1].in_transaction
    /\ issued[2].stmt = "COMMIT" /\ ~issued[2].ok
    /\ last_result = Err("COMMIT") /\ db.committed >= 1

\* The executor was dropped: start returned or unwound.
ExecutorDropped == executor_pc \in {"ended", "panicked"}

\* The temporary file is promoted at most once, a file never promoted is
\* gone once the executor is dropped, and promote was not called on a guard
\* whose path was taken.
PromotionSafe ==
    /\ files.promotions <= 1
    /\ (ExecutorDropped /\ files.promotions = 0) => ~files.temp
    /\ last_result # Panic("cannot promote non-existent file")

\* A step promotes only in a finalize whose COMMIT, if it issued one,
\* succeeded, and no step removes a promoted file.
PromotionStep ==
    /\ files'.promotions > files.promotions
          => (HandleShutdown /\ \A i \in DOMAIN issued' : issued'[i].ok)
    /\ files.output => files'.output

\* C29: for any sequence of messages, more than one Shutdown included, the
\* temporary file is promoted at most once and only by a finalize whose
\* COMMIT succeeded; a promoted file is never removed by the drop of the
\* guard, a file never promoted is removed when the executor is dropped, and
\* promote is never called on a guard whose path was already taken.
C29_PromotedOnceAndKept == []PromotionSafe /\ [][PromotionStep]_vars

\* What holds for every sequence: at most one promotion, by a finalize
\* whose COMMIT succeeded, and the promoted file stays.
PromotedAtMostOnceAndKept == [](files.promotions <= 1) /\ [][PromotionStep]_vars

\* A file never promoted is removed by the drop unless a rename was refused.
UnpromotedFileRemovedUnlessRenameFailed ==
    (ExecutorDropped /\ files.promotions = 0 /\ db_temp_guard = "Some") => ~files.temp

\* A second Shutdown after a successful one ends the executor.
SecondShutdownPanics ==
    /\ executor_pc = "panicked" /\ shut_down /\ files.output
    /\ last_result = Panic("cannot promote non-existent file")
    /\ Len(answered) = Len(taken) - 1

\* A refused rename leaves the temporary file behind for good.
RenameFailureLeavesTempFile ==
    /\ executor_pc = "ended" /\ files.promotions = 0 /\ files.temp
    /\ db_temp_guard = "None" /\ ~shut_down

\* The scheduling of the executor task: tokio runs the task whenever a
\* message is in the channel or the channel is closed.
FairExecutor ==
    /\ SpecExecutor
    /\ WF_vars(HandleExecute) /\ WF_vars(HandleExecuteSpecial) /\ WF_vars(HandleShutdown)
    /\ WF_vars(LoopEnds)

\* The messages in the order they were sent.
InOrder(ids) == ids = [i \in 1..Len(ids) |-> i]

\* Every message taken from the channel was answered, once and in the
\* order of receipt.
TakenAreAnswered == answered = taken /\ InOrder(taken)

\* C30: every DbMessage taken from the channel is answered exactly once on
\* its oneshot channel, in the order the messages were received, also when
\* the statement or a COMMIT or BEGIN fails; a message in the channel is
\* eventually answered, and the loop ends once all senders are dropped.
C30_EveryMessageAnswered ==
    /\ []TakenAreAnswered
    /\ \A n \in 1..MaxMessages : (Sent >= n) ~> (Len(answered) >= n)
    /\ (~senders) ~> (executor_pc = "ended")

\* The same as long as no handler panics.
EveryMessageAnsweredUnlessPanic ==
    /\ [](executor_pc # "panicked" => TakenAreAnswered)
    /\ \A n \in 1..MaxMessages :
          (Sent >= n) ~> (Len(answered) >= n \/ executor_pc = "panicked")
    /\ (~senders) ~> (executor_pc \in {"ended", "panicked"})

\* An Execute whose COMMIT was refused, and a Shutdown whose COMMIT was
\* refused, are answered with the error.
FailedCommitAnswered ==
    /\ executor_pc = "running" /\ last_result = Err("COMMIT")
    /\ answered = taken /\ answered # <<>>

\* The message taken by a handler that panicked is never answered.
TakenButNeverAnswered ==
    /\ executor_pc = "panicked"
    /\ Len(taken) = Len(answered) + 1

====
